---- MODULE Spec2Model ----
(***************************************************************************)
(* Sourcing workflow of resume-screening-ai-backend: the checkpointed      *)
(* stage graph (format_jd .. score_all), its job row in the database, the  *)
(* resume builder, the retry endpoint and the cron recovery sweep.          *)
(* One job is modelled; jobs do not share state.                            *)
(***************************************************************************)
EXTENDS Integers, Sequences, FiniteSets, TLC

(* ------------------------------------------------------------------ *)
(* Bounds of the model                                                *)
(* ------------------------------------------------------------------ *)
MaxTime == 15
MaxFaults == 1
MaxCrashes == 1
MaxSetUrls == 3
MaxRequests == 2
MaxPlanLen == 3
MaxRecoveryCrashes == 4
MaxRecoveryTime == 60
MaxRunSteps == 40

(* ------------------------------------------------------------------ *)
(* Program constants                                                  *)
(* ------------------------------------------------------------------ *)
STUCK_THRESHOLD_MINUTES == 10
MAX_RETRIES == 3
MIN_RESULTS_THRESHOLD == 5
MAX_QUERIES_PER_ITERATION == 2
MAX_ITERATIONS == 5
TickMinutes == 5
MinutesPerHour == 60

NoTime == -1
NoFilters == -1

(* ------------------------------------------------------------------ *)
(* Sequence helpers                                                   *)
(* ------------------------------------------------------------------ *)
Range(s) == {s[i] : i \in 1..Len(s)}

Max(a, b) == IF a >= b THEN a ELSE b

\* Array.filter
Filter(s, Keep(_)) == SelectSeq(s, Keep)

\* variant that adds nothing to the set
AddNothing(base, s) == base

\* Insertion-ordered Set built from an array: first occurrence wins.
AddAll(base, s) ==
  LET fresh == {i \in 1..Len(s) : /\ s[i] \notin Range(base)
                                  /\ \A j \in 1..(i - 1) : s[j] # s[i]}
  IN base \o [k \in 1..Cardinality(fresh) |->
               s[CHOOSE i \in fresh : Cardinality({j \in fresh : j < i}) = k - 1]]

(* ------------------------------------------------------------------ *)
(* state.ts: reducers of the graph state                              *)
(* ------------------------------------------------------------------ *)
\* discoveredUrls / enrichedUrls: new Set([...current, ...update])
unionReducer(current, update) == current \cup update

\* variant: the reducer of the plain channels, update ?? current
replaceReducer(current, update) == update

\* discoveredUrls keeps insertion order in the Set
orderedUnionReducer(current, update) == AddAll(current, update)

\* what a node returns for a channel: a value, or nothing (undefined)
Update(value) == [present |-> TRUE, value |-> value]

NoUpdate == [present |-> FALSE, value |-> << >>]

\* if (!update) return current; an empty Set is truthy and is merged
reduceDiscovered(current, update) ==
  IF ~update.present THEN current
  ELSE orderedUnionReducer(current, update.value)

reduceEnriched(current, update) ==
  IF ~update.present THEN current
  ELSE unionReducer(current, Range(update.value))

(* ------------------------------------------------------------------ *)
(* generate-queries.ts: tiered query plan                             *)
(* ------------------------------------------------------------------ *)
Query(t, id, v) == [tier |-> t, queryId |-> id, variant |-> v]

NoQuery == Query(0, -1, 0)

\* variant that restarts the ids at 0 for every variant
generateQueriesIdsPerVariant(n) ==
  [k \in 1..(3 * n) |-> Query(((k - 1) % 3) + 1, (k - 1) % 3, ((k - 1) \div 3) + 1)]

\* Variant i (from 0) yields ids 3i, 3i+1, 3i+2 with tiers 1, 2, 3.
generateQueriesFromVariants(n) ==
  [k \in 1..(3 * n) |-> Query(((k - 1) % 3) + 1, k - 1, ((k - 1) \div 3) + 1)]

(* ------------------------------------------------------------------ *)
(* search-profiles.ts: selectNextQueryByTier                          *)
(* ------------------------------------------------------------------ *)
tierGroup(queries, t) == Filter(queries, LAMBDA q : q.tier = t)

\* Variant of availableInTier that does not look at the used set.
availableInTierAll(queries, usedIndices, t) == tierGroup(queries, t)

availableInTier(queries, usedIndices, t) ==
  Filter(tierGroup(queries, t), LAMBDA q : q.queryId \notin usedIndices)

\* Variant of firstAvailableInOrder that scans the tiers from 3 down to 1.
firstAvailableReversed(queries, usedIndices) ==
  IF Len(availableInTier(queries, usedIndices, 3)) > 0
    THEN Head(availableInTier(queries, usedIndices, 3))
  ELSE IF Len(availableInTier(queries, usedIndices, 2)) > 0
    THEN Head(availableInTier(queries, usedIndices, 2))
  ELSE IF Len(availableInTier(queries, usedIndices, 1)) > 0
    THEN Head(availableInTier(queries, usedIndices, 1))
  ELSE NoQuery

\* for (let tier = 1; tier <= 3; tier++) ... return available[0]
firstAvailableInOrder(queries, usedIndices) ==
  IF Len(availableInTier(queries, usedIndices, 1)) > 0
    THEN Head(availableInTier(queries, usedIndices, 1))
  ELSE IF Len(availableInTier(queries, usedIndices, 2)) > 0
    THEN Head(availableInTier(queries, usedIndices, 2))
  ELSE IF Len(availableInTier(queries, usedIndices, 3)) > 0
    THEN Head(availableInTier(queries, usedIndices, 3))
  ELSE NoQuery

\* Variant of selectNextQueryByTier that ignores preferTier.
selectNextQueryNoPrefer(queries, usedIndices, preferTier) ==
  firstAvailableInOrder(queries, usedIndices)

\* preferTier = 0 stands for null
selectNextQueryByTier(queries, usedIndices, preferTier) ==
  IF preferTier \in 1..3
     /\ Len(availableInTier(queries, usedIndices, preferTier)) > 0
    THEN Head(availableInTier(queries, usedIndices, preferTier))
    ELSE firstAvailableInOrder(queries, usedIndices)

(* ------------------------------------------------------------------ *)
(* The capabilities' answers: what each query returns and which       *)
(* profiles the enrichment provider has a contact for.                *)
(* ------------------------------------------------------------------ *)
NoResults(n) == [q \in 0..(3 * n - 1) |-> <<>>]

MkWorld(n, maxC, key, res, emails) ==
  [nVariants |-> n, maxCandidates |-> maxC, apiKey |-> key,
   results |-> res, withEmail |-> emails, unscrapable |-> {}, broken |-> {},
   unscorable |-> {}, ownerElsewhere |-> {}, othersElsewhere |-> {}]

\* first profile has no contact, second has: target 1 reached in iteration 1
WorldTarget ==
  MkWorld(1, 1, TRUE, [NoResults(1) EXCEPT ![0] = <<1, 2>>, ![1] = <<2>>], {2})

\* target 2, contacts for profiles 1 and 3, found by different queries
WorldTwo ==
  MkWorld(1, 2, TRUE,
          [NoResults(1) EXCEPT ![0] = <<1, 2>>, ![1] = <<2, 3>>, ![2] = <<3>>],
          {1, 3})

\* no profile has a contact
WorldNone ==
  MkWorld(1, 1, TRUE, [NoResults(1) EXCEPT ![0] = <<1>>], {})

\* SALESQL_API_KEY is not configured
WorldNoKey ==
  MkWorld(1, 1, FALSE, [NoResults(1) EXCEPT ![0] = <<1>>], {1})

\* 3 variants; the first two tier-1 queries return 5 new profiles each,
\* none with a contact; the last query of the plan in selection order
\* (id 8) returns the only profile with a contact.
WorldDeep ==
  MkWorld(3, 3, TRUE,
          [NoResults(3) EXCEPT ![0] = <<1, 2, 3, 4, 5>>,
                               ![3] = <<6, 7, 8, 9, 10>>,
                               ![8] = <<11>>],
          {11})

\* target 10; the first query returns 12 new profiles, 11 of them with a
\* contact (profile 12 has none)
WorldScenarioA ==
  MkWorld(1, 10, TRUE,
          [NoResults(1) EXCEPT ![0] = <<1, 2, 3, 4, 5, 6, 7, 8, 9, 10, 11, 12>>],
          1..11)

\* 3 variants, no profile has a contact; the first two tier-1 queries
\* return 5 new profiles each, every other query returns nothing
WorldScenarioB ==
  MkWorld(3, 3, TRUE,
          [NoResults(3) EXCEPT ![0] = <<1, 2, 3, 4, 5>>,
                               ![3] = <<6, 7, 8, 9, 10>>],
          {})

\* as WorldTwo, but the search capability rejects the first query of the
\* plan (id 0) every time it is submitted, with an error that is not a
\* rate limit
WorldBrokenQuery == [WorldTwo EXCEPT !.broken = {0}]

Worlds == {WorldTarget, WorldTwo, WorldNone, WorldNoKey, WorldDeep,
           WorldScenarioA, WorldScenarioB, WorldBrokenQuery}

AllUrls == 1..12

(* ------------------------------------------------------------------ *)
(* Job row (Checkpoint Store) and graph state                         *)
(* ------------------------------------------------------------------ *)
Msg(kind, stage) == [kind |-> kind, stage |-> stage]

NoMsg == Msg("none", "")

\* prisma.sourcingJob.create in POST /api/sourcing
NewJob(t) ==
  [status |-> "CREATED", currentStage |-> "CREATED", lastCompletedStage |-> "NONE",
   searchFilters |-> NoFilters,
   discoveredUrls |-> <<>>, enrichedUrls |-> {}, usedQueryIndices |-> {},
   scrapedProfilesData |-> {}, parsedProfilesData |-> {},
   totalProfilesFound |-> 0,
   retryCount |-> 0, maxRetries |-> MAX_RETRIES,
   lastActivityAt |-> t, rateLimitResetAt |-> NoTime,
   errorMessage |-> NoMsg]

\* defaults of SourcingStateAnnotation plus the input of the first invoke
InitialState(maxC) ==
  [maxCandidates |-> maxC, searchFilters |-> FALSE, searchQueries |-> <<>>,
   discoveredUrls |-> <<>>, enrichedUrls |-> {}, currentSearchResults |-> <<>>,
   searchIterations |-> 0, candidatesWithEmails |-> 0,
   scrapedProfiles |-> {}, parsedProfiles |-> {},
   currentStage |-> "CREATED"]

\* records: number of rows of the candidate table with this (job, profile URL)
NewCandidate ==
  [hasContactInfo |-> TRUE, scrapingStatus |-> "PENDING", isScored |-> FALSE,
   records |-> 1, isDuplicate |-> FALSE, firstSeenJobId |-> "none"]

withContact(cands) == {u \in DOMAIN cands : cands[u].hasContactInfo}

(* ------------------------------------------------------------------ *)
(* workflow.ts: buildResumeState                                      *)
(* ------------------------------------------------------------------ *)
estimatedIterations(cwe, nDiscovered) ==
  Max(cwe \div 10, IF nDiscovered > 0 THEN 1 ELSE 0)

pendingUrls(jb) == Filter(jb.discoveredUrls, LAMBDA u : u \notin jb.enrichedUrls)

buildResumeState(jb, cands, maxC) ==
  [maxCandidates |-> maxC,
   searchFilters |-> (jb.searchFilters # NoFilters),
   searchQueries |-> <<>>,
   discoveredUrls |-> jb.discoveredUrls,
   enrichedUrls |-> jb.enrichedUrls,
   currentSearchResults |-> pendingUrls(jb),
   searchIterations |->
     estimatedIterations(Cardinality(withContact(cands)), Len(jb.discoveredUrls)),
   candidatesWithEmails |-> Cardinality(withContact(cands)),
   scrapedProfiles |-> jb.scrapedProfilesData,
   parsedProfiles |-> jb.parsedProfilesData,
   currentStage |-> jb.currentStage]

(* ------------------------------------------------------------------ *)
(* nodes/format-jd.ts                                                 *)
(* ------------------------------------------------------------------ *)
\* ok = FALSE: the AI formatter throws
formatJobDescription(st, jb, w, ok, t) ==
  IF st.searchFilters
    THEN [state |-> [st EXCEPT !.currentStage = "JD_FORMATTED"], job |-> jb]
  ELSE IF jb.searchFilters # NoFilters /\ jb.lastCompletedStage = "format_jd"
    THEN [state |-> [st EXCEPT !.searchFilters = TRUE,
                               !.currentStage = "JD_FORMATTED"],
          job |-> jb]
  ELSE IF ok
    THEN [state |-> [st EXCEPT !.searchFilters = TRUE,
                               !.currentStage = "JD_FORMATTED"],
          job |-> [jb EXCEPT !.searchFilters = w.nVariants,
                             !.status = "JD_FORMATTED",
                             !.currentStage = "JD_FORMATTED",
                             !.lastCompletedStage = "format_jd",
                             !.lastActivityAt = t]]
  ELSE [state |-> [st EXCEPT !.currentStage = "FORMAT_FAILED"],
        job |-> [jb EXCEPT !.status = "FAILED",
                           !.errorMessage = Msg("format_failed", "")]]

(* ------------------------------------------------------------------ *)
(* nodes/generate-queries.ts                                          *)
(* ------------------------------------------------------------------ *)
\* searchFiltersVariants is not a channel of the state: the variants are
\* always read from the job row.
generateSearchQueries(st, jb, t) ==
  IF jb.searchFilters # NoFilters /\ jb.searchFilters > 0
     /\ jb.lastCompletedStage = "generate_queries"
    THEN [state |-> [st EXCEPT
                       !.searchQueries = generateQueriesFromVariants(jb.searchFilters),
                       !.currentStage = "QUERY_GENERATED"],
          job |-> jb]
  ELSE IF jb.searchFilters = NoFilters \/ jb.searchFilters = 0
    THEN [state |-> [st EXCEPT !.currentStage = "QUERY_GENERATION_FAILED"],
          job |-> [jb EXCEPT !.status = "FAILED",
                             !.errorMessage = Msg("no_variants", "")]]
  ELSE [state |-> [st EXCEPT
                     !.searchQueries = generateQueriesFromVariants(jb.searchFilters),
                     !.currentStage = "QUERY_GENERATED"],
        job |-> [jb EXCEPT !.status = "SEARCHING_PROFILES",
                           !.currentStage = "QUERY_GENERATED",
                           !.lastCompletedStage = "generate_queries",
                           !.lastActivityAt = t]]

(* ------------------------------------------------------------------ *)
(* scrapping/apify-client.ts: reset time of a search rate limit       *)
(* ------------------------------------------------------------------ *)
\* resetAt.setHours(resetAt.getHours() + 1, 0, 0): the next full hour
nextHour(t) == ((t \div MinutesPerHour) + 1) * MinutesPerHour

(* ------------------------------------------------------------------ *)
(* nodes/search-profiles.ts: searchProfiles                           *)
(* ------------------------------------------------------------------ *)
\* results.filter(p => !discoveredUrls.has(p.profileUrl))
newProfilesOf(results, discovered) ==
  Filter(results, LAMBDA u : u \notin Range(discovered))

\* STEP 1: count from the state, or from the database when it is 0
currentCountOf(st, cands) ==
  IF st.candidatesWithEmails = 0
    THEN Cardinality(withContact(cands))
    ELSE st.candidatesWithEmails

\* Variant of needsFallback that does not look at the number of new profiles.
needsFallbackAlways(nNew, tried) == tried < MAX_QUERIES_PER_ITERATION

\* STEP 6: newProfiles.length < MIN_RESULTS_THRESHOLD &&
\* queriesTriedThisIteration < MAX_QUERIES_PER_ITERATION
needsFallback(nNew, tried) ==
  nNew < MIN_RESULTS_THRESHOLD /\ tried < MAX_QUERIES_PER_ITERATION

SearchReturn(st, jb, results, discovered, iterations, count, stage, submitted, raised, failed) ==
  [state |-> [st EXCEPT !.currentSearchResults = results,
                        !.discoveredUrls = orderedUnionReducer(@, discovered),
                        !.searchIterations = iterations,
                        !.candidatesWithEmails = count,
                        !.currentStage = stage],
   job |-> jb, submitted |-> submitted, raised |-> raised, failed |-> failed]

\* STEP 5-7 once the primary query is selected; o1, o2 are the answers of
\* the search capability to the primary and to the fallback call:
\* "ok", "rate_limit" (RateLimitError) or "error"
searchWithQuery(st, jb, w, count, selectedQuery, o1, o2, t) ==
  LET discovered0 == jb.discoveredUrls
      used0 == jb.usedQueryIndices
      newProfiles == newProfilesOf(w.results[selectedQuery.queryId], discovered0)
      discovered1 == AddAll(discovered0, newProfiles)
      used1 == used0 \cup {selectedQuery.queryId}
      wantFallback == needsFallback(Len(newProfiles), 1)
      fallbackQuery == selectNextQueryByTier(st.searchQueries, used1,
                                             selectedQuery.tier)
      callFallback == wantFallback /\ fallbackQuery # NoQuery
      \* a query the capability always rejects fails whatever else happens
      e1 == IF selectedQuery.queryId \in w.broken THEN "error" ELSE o1
      e2 == IF fallbackQuery.queryId \in w.broken THEN "error" ELSE o2
      fallbackOk == callFallback /\ e2 = "ok"
      newFallback == IF fallbackOk
                       THEN newProfilesOf(w.results[fallbackQuery.queryId], discovered1)
                       ELSE <<>>
      found2 == newProfiles \o newFallback
      discovered2 == AddAll(discovered1, newFallback)
      used2 == IF fallbackOk THEN used1 \cup {fallbackQuery.queryId} ELSE used1
      submitted == IF callFallback
                     THEN <<selectedQuery.queryId, fallbackQuery.queryId>>
                     ELSE <<selectedQuery.queryId>>
  IN
  IF e1 = "rate_limit"
    THEN SearchReturn(st,
           [jb EXCEPT !.status = "RATE_LIMITED",
                      !.rateLimitResetAt = nextHour(t),
                      !.errorMessage = Msg("rate_limit", ""),
                      !.lastActivityAt = t,
                      !.discoveredUrls = discovered0,
                      !.usedQueryIndices = used0],
           <<>>, discovered0, st.searchIterations + 1, count, "RATE_LIMITED",
           <<selectedQuery.queryId>>, TRUE, {})
  ELSE IF e1 = "error"
    THEN SearchReturn(st,
           [jb EXCEPT !.errorMessage = Msg("search_failed", ""),
                      !.lastActivityAt = t,
                      !.discoveredUrls = discovered0,
                      !.usedQueryIndices = used0],
           <<>>, discovered0, st.searchIterations + 1, count, "SEARCH_FAILED",
           <<selectedQuery.queryId>>, FALSE, {selectedQuery.queryId})
  ELSE SearchReturn(st,
         [jb EXCEPT !.discoveredUrls = discovered2,
                    !.usedQueryIndices = used2,
                    !.status = "SEARCHING_PROFILES",
                    !.currentStage = "SEARCH_ITERATION",
                    !.lastCompletedStage = "search_profiles",
                    !.lastActivityAt = t],
         found2, discovered2, st.searchIterations + 1, count, "SEARCH_COMPLETE",
         submitted, callFallback /\ e2 = "rate_limit",
         IF callFallback /\ e2 = "error" THEN {fallbackQuery.queryId} ELSE {})

searchProfiles(st, jb, cands, w, o1, o2, t) ==
  LET count == currentCountOf(st, cands)
      remaining == st.maxCandidates - count
      \* usedQueryIndices is not a channel of the state: restored from the row
      selectedQuery == selectNextQueryByTier(st.searchQueries, jb.usedQueryIndices, 0)
  IN
  IF remaining <= 0
    THEN SearchReturn(st, jb, <<>>, st.discoveredUrls, st.searchIterations,
                      count, "SEARCH_NOT_NEEDED", <<>>, FALSE, {})
  ELSE IF Len(st.currentSearchResults) > 0
    THEN SearchReturn(st, jb, st.currentSearchResults,
                      IF Len(st.discoveredUrls) = 0 THEN jb.discoveredUrls
                                                    ELSE st.discoveredUrls,
                      st.searchIterations, count,
                      "SEARCH_COMPLETE_PENDING_URLS", <<>>, FALSE, {})
  ELSE IF selectedQuery = NoQuery
    THEN SearchReturn(st, jb, <<>>, jb.discoveredUrls, st.searchIterations + 1,
                      count, "ALL_QUERIES_EXHAUSTED", <<>>, FALSE, {})
  ELSE searchWithQuery(st, jb, w, count, selectedQuery, o1, o2, t)

\* whether this invocation of searchProfiles calls the capability at all,
\* and whether it makes the fallback call
searchCallsCapability(st, jb, cands) ==
  /\ st.maxCandidates - currentCountOf(st, cands) > 0
  /\ Len(st.currentSearchResults) = 0
  /\ selectNextQueryByTier(st.searchQueries, jb.usedQueryIndices, 0) # NoQuery

(* ------------------------------------------------------------------ *)
(* nodes/enrich-and-create.ts                                         *)
(* ------------------------------------------------------------------ *)
\* enrichWithSalesQL: a 429 answer throws RateLimitError inside the
\* function's own try block, whose catch returns { hasEmail: false }.
enrichWithSalesQL(url, w, http429) ==
  IF http429 THEN FALSE ELSE url \in w.withEmail

EnrichAcc(found, cands, calls) ==
  [foundWithEmail |-> found, newlyEnrichedUrls |-> {}, candidates |-> cands,
   calls |-> calls]

\* Variant of enrichOne that neither skips enriched URLs nor looks the
\* candidate up before creating it, on a table without the unique key.
enrichOneNoLookup(acc, url, enrichedUrls, maxC, w, http429) ==
  IF acc.foundWithEmail >= maxC THEN acc
  ELSE IF enrichWithSalesQL(url, w, http429)
    THEN [acc EXCEPT
            !.calls = [@ EXCEPT ![url] = @ + 1],
            !.newlyEnrichedUrls = @ \cup {url},
            !.candidates =
               IF url \in DOMAIN @
                 THEN [@ EXCEPT ![url].records = @ + 1]
                 ELSE @ @@ (url :> NewCandidate),
            !.foundWithEmail = @ + 1]
  ELSE [acc EXCEPT
          !.calls = [@ EXCEPT ![url] = @ + 1],
          !.newlyEnrichedUrls = @ \cup {url}]

\* one pass of the for loop of STEP 5 over profile url
enrichOne(acc, url, enrichedUrls, maxC, w, http429) ==
  IF acc.foundWithEmail >= maxC THEN acc
  ELSE IF url \in enrichedUrls THEN acc
  ELSE IF url \in DOMAIN acc.candidates
    THEN [acc EXCEPT
            !.foundWithEmail = IF acc.candidates[url].hasContactInfo
                                 THEN @ + 1 ELSE @,
            !.newlyEnrichedUrls = @ \cup {url}]
  ELSE IF enrichWithSalesQL(url, w, http429)
    THEN [acc EXCEPT
            !.calls = [@ EXCEPT ![url] = @ + 1],
            !.newlyEnrichedUrls = @ \cup {url},
            !.candidates = @ @@ (url :> NewCandidate),
            !.foundWithEmail = @ + 1]
  ELSE [acc EXCEPT
          !.calls = [@ EXCEPT ![url] = @ + 1],
          !.newlyEnrichedUrls = @ \cup {url}]

\* the passes of the loop for profiles lo..hi, in order (the range is split
\* in halves to keep the evaluation shallow on long result lists); once the
\* target is reached the loop breaks, so the remaining passes change nothing
RECURSIVE enrichRange(_, _, _, _, _, _, _, _)
enrichRange(acc, results, lo, hi, enrichedUrls, maxC, w, http429) ==
  IF lo > hi THEN acc
  ELSE IF lo = hi
    THEN enrichOne(acc, results[lo], enrichedUrls, maxC, w, http429)
  ELSE LET mid == (lo + hi) \div 2
           left == enrichRange(acc, results, lo, mid, enrichedUrls, maxC,
                               w, http429)
       IN IF left.foundWithEmail >= maxC THEN left
          ELSE enrichRange(left, results, mid + 1, hi, enrichedUrls, maxC,
                           w, http429)

\* the loop over the first k profiles of currentSearchResults
enrichLoop(acc, results, k, enrichedUrls, maxC, w, http429) ==
  enrichRange(acc, results, 1, k, enrichedUrls, maxC, w, http429)

\* STEP 1
foundAtEntry(st, cands) ==
  IF st.candidatesWithEmails = 0
    THEN Cardinality(withContact(cands))
    ELSE st.candidatesWithEmails

\* Variant of enrichCommit that commits only the URLs enriched in this pass.
enrichCommitNewOnly(st, jb, acc, t) ==
  LET reachedTarget == acc.foundWithEmail >= st.maxCandidates
  IN [state |-> [st EXCEPT
                   !.candidatesWithEmails = acc.foundWithEmail,
                   !.enrichedUrls = unionReducer(@, acc.newlyEnrichedUrls),
                   !.currentSearchResults = <<>>,
                   !.currentStage = IF reachedTarget THEN "ENRICHMENT_COMPLETE"
                                                     ELSE "NEED_MORE_CANDIDATES"],
      job |-> [jb EXCEPT
                 !.enrichedUrls = acc.newlyEnrichedUrls,
                 !.totalProfilesFound = IF reachedTarget THEN acc.foundWithEmail ELSE 0,
                 !.status = IF reachedTarget THEN "PROFILES_FOUND"
                                             ELSE "SEARCHING_PROFILES",
                 !.currentStage = IF reachedTarget THEN "ENRICHMENT_COMPLETE"
                                                   ELSE "ENRICHING_N_OF_M",
                 !.lastCompletedStage = IF reachedTarget THEN "enrich_and_create"
                                                         ELSE @,
                 !.lastActivityAt = t],
      candidates |-> acc.candidates, calls |-> acc.calls,
      found |-> acc.foundWithEmail, returnsCount |-> TRUE]

\* STEP 6-7: what the stage commits and returns after the loop
enrichCommit(st, jb, acc, t) ==
  LET allEnrichedUrls == st.enrichedUrls \cup acc.newlyEnrichedUrls
      reachedTarget == acc.foundWithEmail >= st.maxCandidates
  IN [state |-> [st EXCEPT
                   !.candidatesWithEmails = acc.foundWithEmail,
                   !.enrichedUrls = unionReducer(@, allEnrichedUrls),
                   !.currentSearchResults = <<>>,
                   !.currentStage = IF reachedTarget THEN "ENRICHMENT_COMPLETE"
                                                     ELSE "NEED_MORE_CANDIDATES"],
      job |-> [jb EXCEPT
                 !.enrichedUrls = allEnrichedUrls,
                 !.totalProfilesFound = IF reachedTarget THEN acc.foundWithEmail ELSE 0,
                 !.status = IF reachedTarget THEN "PROFILES_FOUND"
                                             ELSE "SEARCHING_PROFILES",
                 !.currentStage = IF reachedTarget THEN "ENRICHMENT_COMPLETE"
                                                   ELSE "ENRICHING_N_OF_M",
                 !.lastCompletedStage = IF reachedTarget THEN "enrich_and_create"
                                                         ELSE @,
                 !.lastActivityAt = t],
      candidates |-> acc.candidates, calls |-> acc.calls,
      found |-> acc.foundWithEmail, returnsCount |-> TRUE]

enrichAndCreateCandidates(st, jb, cands, calls, w, http429, t) ==
  LET found0 == foundAtEntry(st, cands)
      acc == enrichLoop(EnrichAcc(found0, cands, calls), st.currentSearchResults,
                        Len(st.currentSearchResults), st.enrichedUrls,
                        st.maxCandidates, w, http429)
  IN
  IF found0 >= st.maxCandidates
    THEN [state |-> [st EXCEPT !.candidatesWithEmails = found0,
                               !.currentSearchResults = <<>>,
                               !.currentStage = "ENRICHMENT_COMPLETE"],
          job |-> [jb EXCEPT !.totalProfilesFound = found0,
                             !.status = "PROFILES_FOUND",
                             !.currentStage = "ENRICHMENT_COMPLETE",
                             !.lastCompletedStage = "enrich_and_create",
                             !.lastActivityAt = t],
          candidates |-> cands, calls |-> calls,
          found |-> found0, returnsCount |-> TRUE]
  ELSE IF ~w.apiKey
    THEN [state |-> [st EXCEPT !.currentStage = "ENRICHMENT_FAILED"],
          job |-> [jb EXCEPT !.status = "FAILED",
                             !.errorMessage = Msg("no_api_key", "")],
          candidates |-> cands, calls |-> calls,
          found |-> found0, returnsCount |-> FALSE]
  ELSE enrichCommit(st, jb, acc, t)

\* the process dies inside the loop after k profiles: records created and
\* provider calls made so far stay, nothing is committed to the job row
enrichInterrupted(st, cands, calls, w, http429, k) ==
  enrichLoop(EnrichAcc(foundAtEntry(st, cands), cands, calls),
             st.currentSearchResults, k, st.enrichedUrls,
             st.maxCandidates, w, http429)

enrichReachesLoop(st, cands, w) ==
  foundAtEntry(st, cands) < st.maxCandidates /\ w.apiKey

(* ------------------------------------------------------------------ *)
(* workflow.ts: conditional edge after enrich_and_create              *)
(* ------------------------------------------------------------------ *)
\* Variant of branchAfterEnrich that needs the count to exceed the target.
branchAfterEnrichStrict(st) ==
  IF st.currentStage = "RATE_LIMITED" THEN "end"
  ELSE IF st.candidatesWithEmails > st.maxCandidates THEN "scrape"
  ELSE IF st.searchIterations >= MAX_ITERATIONS
    THEN (IF st.candidatesWithEmails > 0 THEN "scrape" ELSE "no_candidates")
  ELSE "search_again"

branchAfterEnrich(st) ==
  IF st.currentStage = "RATE_LIMITED" THEN "end"
  ELSE IF st.candidatesWithEmails >= st.maxCandidates THEN "scrape"
  ELSE IF st.searchIterations >= MAX_ITERATIONS
    THEN (IF st.candidatesWithEmails > 0 THEN "scrape" ELSE "no_candidates")
  ELSE "search_again"

\* Variant of branchTarget that sends the no_candidates route to Scrape.
branchTargetNoReport(route) ==
  CASE route = "scrape" -> "scrape_candidates"
    [] route = "search_again" -> "search_profiles"
    [] route = "no_candidates" -> "scrape_candidates"
    [] route = "end" -> "END"

branchTarget(route) ==
  CASE route = "scrape" -> "scrape_candidates"
    [] route = "search_again" -> "search_profiles"
    [] route = "no_candidates" -> "handle_no_candidates"
    [] route = "end" -> "END"

(* ------------------------------------------------------------------ *)
(* nodes/scrape-candidates.ts                                         *)
(* ------------------------------------------------------------------ *)
\* state.batchSize || 20
DefaultBatchSize == 20

pendingScrape(cands) == {u \in DOMAIN cands : cands[u].scrapingStatus = "PENDING"}

\* rows of findMany in creation order
inOrder(S) ==
  [k \in 1..Cardinality(S) |->
     CHOOSE x \in S : Cardinality({y \in S : y < x}) = k - 1]

\* Variant of remainingCandidates that ignores what is already scraped.
remainingCandidatesAll(jb, cands) ==
  inOrder(pendingScrape(cands))

\* candidates.filter(c => !alreadyScrapedUrls.has(c.profileUrl)); the model
\* keeps of scrapedProfilesData the URLs of the items with succeeded = true
remainingCandidates(jb, cands) ==
  inOrder(pendingScrape(cands) \ jb.scrapedProfilesData)

\* Math.ceil(remainingCandidates.length / batchSize)
totalBatches(n) == (n + DefaultBatchSize - 1) \div DefaultBatchSize

\* remainingCandidates.slice(start, end) of batch i (1-based)
batchUrls(rem, i) ==
  {rem[j] : j \in ((i - 1) * DefaultBatchSize + 1)..
                  (IF i * DefaultBatchSize <= Len(rem) THEN i * DefaultBatchSize
                                                       ELSE Len(rem))}

ScrapeAcc(jb) ==
  [job |-> jb, data |-> jb.scrapedProfilesData, submitted |-> {},
   halted |-> FALSE]

\* one pass of the batch loop; o is the capability's answer for this batch
scrapeBatch(acc, urls, o, w, t) ==
  IF acc.halted THEN acc
  ELSE IF o = "rate_limit"
    THEN [acc EXCEPT
            !.submitted = @ \cup urls,
            !.halted = TRUE,
            !.job = [@ EXCEPT !.scrapedProfilesData = acc.data,
                              !.status = "RATE_LIMITED",
                              !.rateLimitResetAt = nextHour(t),
                              !.errorMessage = Msg("rate_limit", ""),
                              !.lastActivityAt = t]]
  ELSE IF o = "error"
    THEN [acc EXCEPT
            !.submitted = @ \cup urls,
            !.job = [@ EXCEPT !.scrapedProfilesData = acc.data,
                              !.errorMessage = Msg("scrape_batch_failed", ""),
                              !.lastActivityAt = t]]
  ELSE [acc EXCEPT
          !.submitted = @ \cup urls,
          !.data = @ \cup (urls \ w.unscrapable),
          !.job = [@ EXCEPT
                     !.scrapedProfilesData = acc.data \cup (urls \ w.unscrapable),
                     !.status = "SCRAPING_PROFILES",
                     !.currentStage = "SCRAPING_BATCH_N_OF_M",
                     !.lastActivityAt = t]]

\* the first k passes of the loop; batch failAt gets answer o, the others "ok"
RECURSIVE scrapeLoop(_, _, _, _, _, _, _)
scrapeLoop(acc, rem, k, failAt, o, w, t) ==
  IF k = 0 THEN acc
  ELSE scrapeBatch(scrapeLoop(acc, rem, k - 1, failAt, o, w, t),
                   batchUrls(rem, k), IF k = failAt THEN o ELSE "ok", w, t)

scrapeCandidates(st, jb, cands, w, failAt, o, t) ==
  LET rem == remainingCandidates(jb, cands)
      acc == scrapeLoop(ScrapeAcc(jb), rem, totalBatches(Len(rem)), failAt, o, w, t)
  IN
  IF pendingScrape(cands) = {}
    THEN [state |-> [st EXCEPT !.scrapedProfiles = {},
                               !.currentStage = "SCRAPING_COMPLETE"],
          job |-> jb, submitted |-> {}]
  ELSE IF rem = <<>>
    THEN [state |-> [st EXCEPT !.scrapedProfiles = jb.scrapedProfilesData,
                               !.currentStage = "SCRAPING_COMPLETE"],
          job |-> jb, submitted |-> {}]
  ELSE IF acc.halted
    THEN [state |-> [st EXCEPT !.scrapedProfiles = acc.data,
                               !.currentStage = "RATE_LIMITED"],
          job |-> acc.job, submitted |-> acc.submitted]
  ELSE [state |-> [st EXCEPT !.scrapedProfiles = acc.data,
                             !.currentStage = "SCRAPING_COMPLETE"],
        job |-> [acc.job EXCEPT !.status = "SCRAPING_PROFILES",
                                !.currentStage = "SCRAPING_COMPLETE",
                                !.lastCompletedStage = "scrape_candidates",
                                !.lastActivityAt = t],
        submitted |-> acc.submitted]

\* the process dies in the batch loop right after the commit of batch k
scrapeInterrupted(jb, cands, w, k, t) ==
  scrapeLoop(ScrapeAcc(jb), remainingCandidates(jb, cands), k, 0, "ok", w, t)

(* ------------------------------------------------------------------ *)
(* nodes/parse-candidates.ts                                          *)
(* ------------------------------------------------------------------ *)
parseCandidates(st, jb, t) ==
  LET remaining == st.scrapedProfiles \ jb.parsedProfilesData
      parsed == jb.parsedProfilesData \cup remaining
  IN
  IF remaining = {}
    THEN [state |-> [st EXCEPT !.parsedProfiles = jb.parsedProfilesData,
                               !.currentStage = "PARSING_COMPLETE"],
          job |-> jb]
  ELSE [state |-> [st EXCEPT !.parsedProfiles = parsed,
                             !.currentStage = "PARSING_COMPLETE"],
        job |-> [jb EXCEPT !.parsedProfilesData = parsed,
                           !.status = "PARSING_PROFILES",
                           !.currentStage = "PARSING_COMPLETE",
                           !.lastCompletedStage = "parse_candidates",
                           !.lastActivityAt = t]]

(* ------------------------------------------------------------------ *)
(* nodes/updates-candidate.ts                                         *)
(* ------------------------------------------------------------------ *)
alreadyUpdated(cands) == {u \in DOMAIN cands : cands[u].scrapingStatus = "SCRAPED"}

\* utils/deduplication.ts: findFirst over the records with this profile URL
\* in any sourcing job of the user, ordered by scrapedAt ascending. The job
\* being run is not excluded: its own record, created by enrich_and_create
\* and not yet scraped (scrapedAt null, sorted last), is among them. Records
\* of other users (w.othersElsewhere) are not.
checkDuplicateCandidate(cands, w, u) ==
  IF u \in w.ownerElsewhere THEN "other"
  ELSE IF u \in DOMAIN cands THEN "this"
  ELSE "none"

updateCandidates(st, jb, cands, w, t) ==
  LET remaining == st.parsedProfiles \ alreadyUpdated(cands)
  IN
  IF st.parsedProfiles = {} \/ remaining = {}
    THEN [state |-> [st EXCEPT !.currentStage = "UPDATE_COMPLETE"],
          job |-> jb, candidates |-> cands]
  ELSE [state |-> [st EXCEPT !.currentStage = "UPDATE_COMPLETE"],
        job |-> [jb EXCEPT !.status = "SAVING_PROFILES",
                           !.currentStage = "UPDATE_COMPLETE",
                           !.lastCompletedStage = "update_candidates",
                           !.lastActivityAt = t],
        candidates |->
          [u \in DOMAIN cands |->
             IF u \in remaining
               THEN [cands[u] EXCEPT
                       !.isDuplicate = checkDuplicateCandidate(cands, w, u) # "none",
                       !.firstSeenJobId = checkDuplicateCandidate(cands, w, u),
                       !.scrapingStatus = "SCRAPED"]
               ELSE cands[u]]]

(* ------------------------------------------------------------------ *)
(* nodes/score-batch.ts                                               *)
(* ------------------------------------------------------------------ *)
\* variant that finds no unscored record
unscoredNone(cands) == {}

unscored(cands) == {u \in DOMAIN cands : ~cands[u].isScored}

\* const batchSize = 20
ScoreBatchSize == 20

\* findMany({ where: { isScored: false }, take: batchSize })
scoreBatchOf(cands) ==
  {u \in unscored(cands) :
     Cardinality({v \in unscored(cands) : v < u}) < ScoreBatchSize}

\* results with status 'success' whose update succeeded
scoredInBatch(cands, w) == scoreBatchOf(cands) \ w.unscorable

\* One pass of the node up to the next evaluation of while (true): the entry
\* check, or one round of the batch loop. done = FALSE: the loop goes round
\* again.
scoreAllCandidates(st, jb, cands, w, t) ==
  LET cands1 == [u \in DOMAIN cands |->
                   IF u \in scoredInBatch(cands, w)
                     THEN [cands[u] EXCEPT !.isScored = TRUE]
                     ELSE cands[u]]
  IN
  IF unscored(cands) = {}
    THEN [state |-> [st EXCEPT !.currentStage = "COMPLETED"],
          job |-> [jb EXCEPT !.status = "COMPLETED",
                             !.currentStage = "SCORING_COMPLETE",
                             !.lastActivityAt = t],
          candidates |-> cands, done |-> TRUE]
  ELSE IF unscored(cands1) = {}
    THEN [state |-> [st EXCEPT !.currentStage = "COMPLETED"],
          job |-> [jb EXCEPT !.status = "COMPLETED",
                             !.currentStage = "SCORING_COMPLETE",
                             !.lastCompletedStage = "score_all",
                             !.lastActivityAt = t],
          candidates |-> cands1, done |-> TRUE]
  ELSE [state |-> st,
        job |-> [jb EXCEPT !.status = "SCORING_PROFILES",
                           !.currentStage = "SCORED_N_OF_M",
                           !.lastActivityAt = t],
        candidates |-> cands1, done |-> FALSE]

(* ------------------------------------------------------------------ *)
(* nodes/handle-no-candidates.ts                                      *)
(* ------------------------------------------------------------------ *)
handleNoCandidates(st, jb, t) ==
  [state |-> [st EXCEPT !.currentStage = "NO_CANDIDATES_FOUND"],
   job |-> [jb EXCEPT !.status = "COMPLETED",
                      !.currentStage = "NO_CANDIDATES_FOUND",
                      !.lastCompletedStage = "handle_no_candidates",
                      !.lastActivityAt = t,
                      !.errorMessage = Msg("report", ""),
                      !.totalProfilesFound = 0]]

(* ------------------------------------------------------------------ *)
(* routes/cron.ts: GET /recover-jobs for the modelled job             *)
(* ------------------------------------------------------------------ *)
SweptStatuses ==
  {"FORMATTING_JD", "JD_FORMATTED", "SEARCHING_PROFILES", "PROFILES_FOUND",
   "SCRAPING_PROFILES", "PARSING_PROFILES", "SAVING_PROFILES",
   "SCORING_PROFILES", "RATE_LIMITED"}

\* where clause of stuckJobs
isStuckJob(jb, t) ==
  /\ jb.status \in SweptStatuses
  /\ jb.lastActivityAt < t - STUCK_THRESHOLD_MINUTES
  /\ jb.retryCount < MAX_RETRIES

NoSummary == [totalStuckJobs |-> 0, recovered |-> 0, failed |-> 0,
              maxRetriesReached |-> 0]

\* body of the for loop for one selected job; invoke = TRUE when the graph
\* is re-invoked with buildResumeState
recoverJob(jb, t) ==
  IF jb.retryCount >= MAX_RETRIES
    THEN [job |-> [jb EXCEPT !.status = "FAILED",
                             !.errorMessage = Msg("stuck_max_retries", jb.currentStage),
                             !.lastActivityAt = t],
          invoke |-> FALSE,
          summary |-> [NoSummary EXCEPT !.totalStuckJobs = 1,
                                        !.maxRetriesReached = 1]]
    ELSE [job |-> [jb EXCEPT !.status = "CREATED",
                             !.currentStage = "AUTO_RECOVERY",
                             !.errorMessage = NoMsg,
                             !.retryCount = @ + 1,
                             !.lastActivityAt = t],
          invoke |-> TRUE,
          summary |-> [NoSummary EXCEPT !.totalStuckJobs = 1, !.recovered = 1]]

recoverJobs(jb, t) ==
  IF isStuckJob(jb, t) THEN recoverJob(jb, t)
  ELSE [job |-> jb, invoke |-> FALSE, summary |-> NoSummary]

(* ------------------------------------------------------------------ *)
(* routes/sourcing retry: GET /:jobId                                 *)
(* ------------------------------------------------------------------ *)
retryAccepted(jb) == ~(jb.retryCount >= jb.maxRetries)

retryJobSameCount(jb, t) ==
  [jb EXCEPT !.status = "CREATED",
             !.currentStage = "RETRY_INITIATED",
             !.errorMessage = NoMsg,
             !.lastActivityAt = t]

retryJob(jb, t) ==
  [jb EXCEPT !.status = "CREATED",
             !.currentStage = "RETRY_INITIATED",
             !.errorMessage = NoMsg,
             !.retryCount = @ + 1,
             !.lastActivityAt = t]

(* ------------------------------------------------------------------ *)
(* State of the model                                                 *)
(* ------------------------------------------------------------------ *)
VARIABLES
  world,        \* answers of the capabilities and the job's configuration
  now,          \* wall clock, minutes
  pc,           \* node of the graph the execution is at, "END" or "crashed"
  state,        \* in-memory graph state of the running execution
  job,          \* the job row
  candidates,   \* Candidate Records of the job, by profile URL
  enrichCalls,  \* history: calls to the enrichment provider per URL
  run,          \* history of the current graph invocation
  hist,         \* history of the job over all invocations
  faults,       \* capability faults injected so far
  crashes,      \* process deaths so far
  summary,      \* response of the last recovery sweep
  sweptAt,      \* time of the last recovery sweep
  sel,          \* inputs and result of a stand-alone call of a pure function
  handlers      \* route handlers between their read of the job row and their write

vars == <<world, now, pc, state, job, candidates, enrichCalls, run, hist,
          faults, crashes, summary, sweptAt, sel, handlers>>

Nodes == {"format_jd", "generate_queries", "search_profiles", "enrich_and_create",
          "branch", "scrape_candidates", "parse_candidates", "update_candidates",
          "score_all", "handle_no_candidates"}

Running == pc \in Nodes

Outcomes == {"ok", "rate_limit", "error"}

NewRun(kind) ==
  [kind |-> kind,
   searchRateLimited |-> FALSE, rlResetAt |-> NoTime,
   nodesAfterRL |-> FALSE, searchAfterRL |-> FALSE,
   targetReached |-> FALSE, routeAfterTarget |-> "none",
   searchAfterTarget |-> FALSE,
   lastRoute |-> "none", enrichReturned |-> -1,
   scrapeSubmitted |-> {}, scrapeRateLimited |-> FALSE, nodesAfterScrapeRL |-> {},
   enrichRateLimited |-> FALSE, markedFailed |-> FALSE,
   lastSubmitted |-> << >>, usedAtStart |-> {}]

NewHist ==
  [resumes |-> 0, recoveries |-> 0, interrupted |-> "none", faulted |-> FALSE,
   reran |-> FALSE,
   scraped |-> {}, rescraped |-> {},
   crashBatch |-> 0, crashBatches |-> 0, crashCommitted |-> {}, crashPending |-> {},
   older |-> [pc |-> "none", state |-> << >>],
   retryResponse |-> "none",
   searchFailed |-> {}, afterFailure |-> {}, sawExisting |-> {},
   queryIterations |-> 0]

\* no request is between its check of the retry count and its write
NoHandlers == [retry |-> [r \in 1..MaxRequests |-> "idle"],
               sweep |-> [at |-> "idle", retryCount |-> 0]]

IdleSel == [plan |-> <<>>, used |-> {}, prefer |-> 0, result |-> NoQuery,
            done |-> FALSE]

\* POST /api/sourcing: the row is created and the graph invoked
Init ==
  /\ world \in Worlds
  /\ now = 0
  /\ pc = "format_jd"
  /\ state = InitialState(world.maxCandidates)
  /\ job = NewJob(0)
  /\ candidates = << >>
  /\ enrichCalls = [u \in AllUrls |-> 0]
  /\ run = NewRun("create")
  /\ hist = NewHist
  /\ faults = 0
  /\ crashes = 0
  /\ summary = NoSummary
  /\ sweptAt = 0
  /\ sel = IdleSel
  /\ handlers = NoHandlers

NodeRan == [run EXCEPT !.nodesAfterRL = @ \/ run.searchRateLimited]

\* a node ran and returned r: did it write status FAILED to the job row
NodeRanMarking(r) ==
  [NodeRan EXCEPT !.markedFailed = @ \/ (r.job.status = "FAILED" /\ r.job # job)]

\* a node that follows scrape_candidates ran
NodeRanAfterScrape(node) ==
  [NodeRan EXCEPT !.nodesAfterScrapeRL =
                     IF run.scrapeRateLimited THEN @ \cup {node} ELSE @]

FaultAllowed(n) == faults + n <= MaxFaults

FormatJD ==
  /\ pc = "format_jd"
  /\ \E ok \in BOOLEAN :
       LET r == formatJobDescription(state, job, world, ok, now)
           called == ~state.searchFilters
                     /\ ~(job.searchFilters # NoFilters
                          /\ job.lastCompletedStage = "format_jd")
       IN /\ ok \/ (called /\ FaultAllowed(1))
          /\ state' = r.state
          /\ job' = r.job
          /\ faults' = IF ok THEN faults ELSE faults + 1
          /\ hist' = [hist EXCEPT !.faulted = @ \/ ~ok]
          /\ run' = NodeRanMarking(r)
  /\ pc' = "generate_queries"
  /\ UNCHANGED <<world, now, candidates, enrichCalls, crashes, summary, sweptAt, sel, handlers>>

GenerateQueries ==
  /\ pc = "generate_queries"
  /\ LET r == generateSearchQueries(state, job, now)
     IN state' = r.state /\ job' = r.job /\ run' = NodeRanMarking(r)
  /\ pc' = "search_profiles"
  /\ UNCHANGED <<world, now, candidates, enrichCalls, hist, faults, crashes,
                 summary, sweptAt, sel, handlers>>

FaultCount(o) == IF o = "ok" THEN 0 ELSE 1

SearchProfiles ==
  /\ pc = "search_profiles"
  /\ \E o1, o2 \in Outcomes :
       LET r == searchProfiles(state, job, candidates, world, o1, o2, now)
           n == FaultCount(o1) + FaultCount(o2)
       IN /\ Len(r.submitted) < 1 => o1 = "ok"
          /\ Len(r.submitted) < 2 => o2 = "ok"
          /\ (Len(r.submitted) >= 1 /\ r.submitted[1] \in world.broken) => o1 = "ok"
          /\ (Len(r.submitted) >= 2 /\ r.submitted[2] \in world.broken) => o2 = "ok"
          /\ n = 0 \/ FaultAllowed(n)
          /\ state' = r.state
          /\ job' = r.job
          /\ faults' = faults + n
          /\ hist' = [hist EXCEPT
                        !.faulted = @ \/ n > 0 \/ r.failed # {},
                        !.searchFailed = @ \cup r.failed,
                        !.queryIterations =
                           IF Len(r.submitted) > 0 /\ @ <= MAX_ITERATIONS
                             THEN @ + 1 ELSE @,
                        !.afterFailure =
                           IF hist.searchFailed # {}
                             THEN @ \cup Range(r.submitted) ELSE @]
          /\ run' = [NodeRan EXCEPT
                       !.lastSubmitted = r.submitted,
                       !.searchRateLimited = @ \/ r.raised,
                       !.rlResetAt = IF r.raised THEN nextHour(now) ELSE @,
                       !.searchAfterRL =
                          @ \/ (run.searchRateLimited /\ Len(r.submitted) > 0),
                       !.searchAfterTarget =
                          @ \/ (run.targetReached /\ Len(r.submitted) > 0)]
  /\ pc' = "enrich_and_create"
  /\ UNCHANGED <<world, now, candidates, enrichCalls, crashes, summary, sweptAt, sel, handlers>>

EnrichAndCreate ==
  /\ pc = "enrich_and_create"
  /\ \E http429 \in BOOLEAN :
       LET r == enrichAndCreateCandidates(state, job, candidates, enrichCalls,
                                          world, http429, now)
       IN /\ http429 => (FaultAllowed(1) /\ r.calls # enrichCalls)
          /\ state' = r.state
          /\ job' = r.job
          /\ candidates' = r.candidates
          /\ enrichCalls' = r.calls
          /\ faults' = IF http429 THEN faults + 1 ELSE faults
          /\ hist' = [hist EXCEPT
                        !.faulted = @ \/ http429,
                        !.sawExisting =
                           @ \cup ((r.job.enrichedUrls \ job.enrichedUrls)
                                     \cap DOMAIN candidates)]
          /\ run' = [NodeRanMarking(r) EXCEPT
                       !.enrichRateLimited = http429,
                       !.targetReached =
                          @ \/ (r.returnsCount /\ r.found >= state.maxCandidates),
                       !.enrichReturned = IF r.returnsCount THEN r.found ELSE -1]
  /\ pc' = "branch"
  /\ UNCHANGED <<world, now, crashes, summary, sweptAt, sel, handlers>>

Branch ==
  /\ pc = "branch"
  /\ pc' = branchTarget(branchAfterEnrich(state))
  /\ run' = [run EXCEPT
               !.lastRoute = branchAfterEnrich(state),
               !.routeAfterTarget =
                  IF run.targetReached /\ @ = "none"
                    THEN branchAfterEnrich(state) ELSE @]
  /\ UNCHANGED <<world, now, state, job, candidates, enrichCalls, hist, faults,
                 crashes, summary, sweptAt, sel, handlers>>

ScrapeCandidates ==
  /\ pc = "scrape_candidates"
  /\ \E o \in Outcomes :
     \E failAt \in 0..totalBatches(Len(remainingCandidates(job, candidates))) :
       LET r == scrapeCandidates(state, job, candidates, world, failAt, o, now)
       IN /\ (o = "ok") = (failAt = 0)
          /\ o # "ok" => FaultAllowed(1)
          /\ state' = r.state
          /\ job' = r.job
          /\ faults' = faults + FaultCount(o)
          /\ hist' = [hist EXCEPT
                        !.faulted = @ \/ o # "ok",
                        !.rescraped = @ \cup (r.submitted \cap hist.scraped),
                        !.scraped = @ \cup r.submitted]
          /\ run' = [NodeRan EXCEPT
                       !.scrapeSubmitted = @ \cup r.submitted,
                       !.scrapeRateLimited = @ \/ (o = "rate_limit")]
  /\ pc' = "parse_candidates"
  /\ UNCHANGED <<world, now, candidates, enrichCalls, crashes, summary, sweptAt, sel, handlers>>

ParseCandidates ==
  /\ pc = "parse_candidates"
  /\ LET r == parseCandidates(state, job, now)
     IN state' = r.state /\ job' = r.job
  /\ pc' = "update_candidates"
  /\ run' = NodeRanAfterScrape("parse_candidates")
  /\ UNCHANGED <<world, now, candidates, enrichCalls, hist, faults, crashes,
                 summary, sweptAt, sel, handlers>>

UpdateCandidates ==
  /\ pc = "update_candidates"
  /\ LET r == updateCandidates(state, job, candidates, world, now)
     IN state' = r.state /\ job' = r.job /\ candidates' = r.candidates
  /\ pc' = "score_all"
  /\ run' = NodeRanAfterScrape("update_candidates")
  /\ UNCHANGED <<world, now, enrichCalls, hist, faults, crashes, summary,
                 sweptAt, sel, handlers>>

ScoreAll ==
  /\ pc = "score_all"
  /\ LET r == scoreAllCandidates(state, job, candidates, world, now)
     IN /\ state' = r.state
        /\ job' = r.job
        /\ candidates' = r.candidates
        /\ pc' = IF r.done THEN "END" ELSE "score_all"
  /\ run' = NodeRanAfterScrape("score_all")
  /\ UNCHANGED <<world, now, enrichCalls, hist, faults, crashes, summary,
                 sweptAt, sel, handlers>>

HandleNoCandidates ==
  /\ pc = "handle_no_candidates"
  /\ LET r == handleNoCandidates(state, job, now)
     IN state' = r.state /\ job' = r.job
  /\ pc' = "END"
  /\ run' = NodeRan
  /\ UNCHANGED <<world, now, candidates, enrichCalls, hist, faults, crashes,
                 summary, sweptAt, sel, handlers>>

\* the process dies between two nodes: the in-memory state is lost
CrashAtBoundary ==
  /\ Running
  /\ crashes < MaxCrashes
  /\ pc' = "crashed"
  /\ crashes' = crashes + 1
  /\ state' = InitialState(world.maxCandidates)
  /\ hist' = [hist EXCEPT !.interrupted = IF @ = "mid" THEN @ ELSE "boundary"]
  /\ UNCHANGED <<world, now, job, candidates, enrichCalls, run, faults, summary,
                 sweptAt, sel, handlers>>

\* the process dies inside the loop of enrich_and_create after k profiles
CrashInEnrich ==
  /\ pc = "enrich_and_create"
  /\ crashes < MaxCrashes
  /\ enrichReachesLoop(state, candidates, world)
  /\ \E k \in 1..Len(state.currentSearchResults) :
       LET acc == enrichInterrupted(state, candidates, enrichCalls, world, FALSE, k)
       IN /\ acc.calls # enrichCalls
          /\ candidates' = acc.candidates
          /\ enrichCalls' = acc.calls
  /\ pc' = "crashed"
  /\ crashes' = crashes + 1
  /\ state' = InitialState(world.maxCandidates)
  /\ hist' = [hist EXCEPT !.interrupted = "mid"]
  /\ UNCHANGED <<world, now, job, run, faults, summary, sweptAt, sel, handlers>>

\* the process dies inside the batch loop of scrape_candidates, right after
\* the commit of batch k
CrashInScrape ==
  /\ pc = "scrape_candidates"
  /\ crashes < MaxCrashes
  /\ LET rem == remainingCandidates(job, candidates)
     IN \E k \in 1..totalBatches(Len(rem)) :
          LET acc == scrapeInterrupted(job, candidates, world, k, now)
          IN /\ job' = acc.job
             /\ hist' = [hist EXCEPT
                           !.interrupted = "scrape",
                           !.rescraped = @ \cup (acc.submitted \cap hist.scraped),
                           !.scraped = @ \cup acc.submitted,
                           !.crashBatch = k,
                           !.crashBatches = totalBatches(Len(rem)),
                           !.crashCommitted = acc.submitted,
                           !.crashPending = Range(rem) \ acc.submitted]
             /\ run' = [run EXCEPT !.scrapeSubmitted = @ \cup acc.submitted]
  /\ pc' = "crashed"
  /\ crashes' = crashes + 1
  /\ state' = InitialState(world.maxCandidates)
  /\ UNCHANGED <<world, now, candidates, enrichCalls, faults, summary, sweptAt, sel, handlers>>

Tick ==
  /\ ~Running
  /\ now + TickMinutes <= MaxTime
  /\ now' = now + TickMinutes
  /\ UNCHANGED <<world, pc, state, job, candidates, enrichCalls, run, hist,
                 faults, crashes, summary, sweptAt, sel, handlers>>

\* GET /api/cron/recover-jobs, called once per cron period
RecoverJobs ==
  /\ ~Running
  /\ sweptAt < now
  /\ LET r == recoverJobs(job, now)
     IN /\ job' = r.job
        /\ summary' = r.summary
        /\ IF r.invoke
             THEN /\ state' = buildResumeState(r.job, candidates, world.maxCandidates)
                  /\ pc' = "format_jd"
                  /\ run' = NewRun("sweep")
                  /\ hist' = [hist EXCEPT !.resumes = @ + 1,
                                           !.recoveries = @ + 1,
                                           !.reran = @ \/ pc = "END"]
             ELSE UNCHANGED <<state, pc, run, hist>>
  /\ sweptAt' = now
  /\ UNCHANGED <<world, now, candidates, enrichCalls, faults, crashes, sel, handlers>>

\* GET /api/sourcing/:jobId/retry, accepted
RetryJob ==
  /\ ~Running
  /\ retryAccepted(job)
  /\ job' = retryJob(job, now)
  /\ state' = buildResumeState(retryJob(job, now), candidates, world.maxCandidates)
  /\ pc' = "format_jd"
  /\ run' = [NewRun("retry") EXCEPT !.usedAtStart = job.usedQueryIndices]
  /\ hist' = [hist EXCEPT !.resumes = @ + 1, !.reran = @ \/ pc = "END",
                          !.retryResponse = "accepted"]
  /\ UNCHANGED <<world, now, candidates, enrichCalls, faults, crashes, summary,
                 sweptAt, sel, handlers>>

\* the retry route answers 400 "Max retries exceeded"
RetryRejected ==
  /\ ~retryAccepted(job)
  /\ hist.retryResponse # "rejected"
  /\ hist' = [hist EXCEPT !.retryResponse = "rejected"]
  /\ UNCHANGED <<world, now, pc, state, job, candidates, enrichCalls, run,
                 faults, crashes, summary, sweptAt, sel, handlers>>

Next ==
  \/ FormatJD
  \/ GenerateQueries
  \/ SearchProfiles
  \/ EnrichAndCreate
  \/ Branch
  \/ ScrapeCandidates
  \/ ParseCandidates
  \/ UpdateCandidates
  \/ ScoreAll
  \/ HandleNoCandidates
  \/ CrashAtBoundary
  \/ CrashInEnrich
  \/ Tick
  \/ RecoverJobs
  \/ RetryJob
  \/ RetryRejected

Spec == Init /\ [][Next]_vars

(* ------------------------------------------------------------------ *)
(* The uninterrupted run: the graph executed from the first invoke to *)
(* END with the capabilities answering as the world says              *)
(* ------------------------------------------------------------------ *)
Config(p, st, jb, cands, calls) ==
  [pc |-> p, state |-> st, job |-> jb, candidates |-> cands, calls |-> calls]

stepNode(c, w, t) ==
  CASE c.pc = "format_jd" ->
         LET r == formatJobDescription(c.state, c.job, w, TRUE, t)
         IN Config("generate_queries", r.state, r.job, c.candidates, c.calls)
    [] c.pc = "generate_queries" ->
         LET r == generateSearchQueries(c.state, c.job, t)
         IN Config("search_profiles", r.state, r.job, c.candidates, c.calls)
    [] c.pc = "search_profiles" ->
         LET r == searchProfiles(c.state, c.job, c.candidates, w, "ok", "ok", t)
         IN Config("enrich_and_create", r.state, r.job, c.candidates, c.calls)
    [] c.pc = "enrich_and_create" ->
         LET r == enrichAndCreateCandidates(c.state, c.job, c.candidates, c.calls,
                                            w, FALSE, t)
         IN Config("branch", r.state, r.job, r.candidates, r.calls)
    [] c.pc = "branch" ->
         Config(branchTarget(branchAfterEnrich(c.state)), c.state, c.job,
                c.candidates, c.calls)
    [] c.pc = "scrape_candidates" ->
         LET r == scrapeCandidates(c.state, c.job, c.candidates, w, 0, "ok", t)
         IN Config("parse_candidates", r.state, r.job, c.candidates, c.calls)
    [] c.pc = "parse_candidates" ->
         LET r == parseCandidates(c.state, c.job, t)
         IN Config("update_candidates", r.state, r.job, c.candidates, c.calls)
    [] c.pc = "update_candidates" ->
         LET r == updateCandidates(c.state, c.job, c.candidates, w, t)
         IN Config("score_all", r.state, r.job, r.candidates, c.calls)
    [] c.pc = "score_all" ->
         LET r == scoreAllCandidates(c.state, c.job, c.candidates, w, t)
         IN Config(IF r.done THEN "END" ELSE "score_all",
                   r.state, r.job, r.candidates, c.calls)
    [] c.pc = "handle_no_candidates" ->
         LET r == handleNoCandidates(c.state, c.job, t)
         IN Config("END", r.state, r.job, c.candidates, c.calls)

RECURSIVE runToEnd(_, _, _)
runToEnd(c, w, fuel) ==
  IF c.pc = "END" \/ fuel = 0 THEN c
  ELSE runToEnd(stepNode(c, w, 0), w, fuel - 1)

uninterruptedRun(w) ==
  runToEnd(Config("format_jd", InitialState(w.maxCandidates), NewJob(0), << >>,
                  [u \in AllUrls |-> 0]),
           w, MaxRunSteps)

(* ------------------------------------------------------------------ *)
(* Stand-alone calls of selectNextQueryByTier on arbitrary plans       *)
(* ------------------------------------------------------------------ *)
\* tier 4 stands for a query whose tier is outside the three groups
Plans ==
  UNION {[1..n -> 1..4] : n \in 0..MaxPlanLen}

PlanOf(tiers) == [k \in 1..Len(tiers) |-> Query(tiers[k], k - 1, k)]

InitSelect ==
  /\ world = WorldNone
  /\ now = 0
  /\ pc = "END"
  /\ state = InitialState(world.maxCandidates)
  /\ job = NewJob(0)
  /\ candidates = << >>
  /\ enrichCalls = [u \in AllUrls |-> 0]
  /\ run = NewRun("create")
  /\ hist = NewHist
  /\ faults = 0
  /\ crashes = 0
  /\ summary = NoSummary
  /\ sweptAt = 0
  /\ handlers = NoHandlers
  /\ \E tiers \in Plans :
       \E used \in SUBSET (0..(Len(tiers) - 1)) :
         \E prefer \in 0..3 :
           sel = [plan |-> PlanOf(tiers), used |-> used, prefer |-> prefer,
                  result |-> NoQuery, done |-> FALSE]

SelectNext ==
  /\ ~sel.done
  /\ sel' = [sel EXCEPT
               !.result = selectNextQueryByTier(sel.plan, sel.used, sel.prefer),
               !.done = TRUE]
  /\ UNCHANGED <<world, now, pc, state, job, candidates, enrichCalls, run, hist,
                 faults, crashes, summary, sweptAt, handlers>>

NextSelect == SelectNext

SpecSelect == InitSelect /\ [][NextSelect]_vars

(* ------------------------------------------------------------------ *)
(* Automatic recovery only: the job is created, its process may die   *)
(* between nodes, and the cron sweep is the only thing that resumes it *)
(* ------------------------------------------------------------------ *)
InitRecovery ==
  /\ Init
  /\ world \in {WorldNone, WorldTarget}

CrashRecovery ==
  /\ Running
  /\ crashes < MaxRecoveryCrashes
  /\ pc' = "crashed"
  /\ crashes' = crashes + 1
  /\ state' = InitialState(world.maxCandidates)
  /\ hist' = [hist EXCEPT !.interrupted = "boundary"]
  /\ UNCHANGED <<world, now, job, candidates, enrichCalls, run, faults, summary,
                 sweptAt, sel, handlers>>

TickRecovery ==
  /\ ~Running
  /\ now + TickMinutes <= MaxRecoveryTime
  /\ now' = now + TickMinutes
  /\ UNCHANGED <<world, pc, state, job, candidates, enrichCalls, run, hist,
                 faults, crashes, summary, sweptAt, sel, handlers>>

NextRecovery ==
  \/ FormatJD
  \/ GenerateQueries
  \/ SearchProfiles
  \/ EnrichAndCreate
  \/ Branch
  \/ ScrapeCandidates
  \/ ParseCandidates
  \/ UpdateCandidates
  \/ ScoreAll
  \/ HandleNoCandidates
  \/ CrashRecovery
  \/ TickRecovery
  \/ RecoverJobs

SpecRecovery == InitRecovery /\ [][NextRecovery]_vars

(* ------------------------------------------------------------------ *)
(* Jobs large enough for several scrape batches: process deaths       *)
(* inside the batch loop of scrape_candidates                         *)
(* ------------------------------------------------------------------ *)
ScrapeUrls == 1..100

\* target 100, one query returns 100 profiles, all with a contact: the
\* scrape stage has 5 batches of 20
WorldScenarioC ==
  MkWorld(1, 100, TRUE, [NoResults(1) EXCEPT ![0] = inOrder(ScrapeUrls)],
          ScrapeUrls)

\* same, and the scraper returns profile 3 with succeeded = false
WorldScenarioCFailed ==
  [WorldScenarioC EXCEPT !.unscrapable = {3}]

InitScrape ==
  /\ world \in {WorldScenarioC, WorldScenarioCFailed}
  /\ now = 0
  /\ pc = "format_jd"
  /\ state = InitialState(world.maxCandidates)
  /\ job = NewJob(0)
  /\ candidates = << >>
  /\ enrichCalls = [u \in ScrapeUrls |-> 0]
  /\ run = NewRun("create")
  /\ hist = NewHist
  /\ faults = 0
  /\ crashes = 0
  /\ summary = NoSummary
  /\ sweptAt = 0
  /\ sel = IdleSel
  /\ handlers = NoHandlers

NextScrape ==
  \/ FormatJD
  \/ GenerateQueries
  \/ SearchProfiles
  \/ EnrichAndCreate
  \/ Branch
  \/ ScrapeCandidates
  \/ ParseCandidates
  \/ UpdateCandidates
  \/ ScoreAll
  \/ HandleNoCandidates
  \/ CrashInScrape
  \/ RetryJob

SpecScrape == InitScrape /\ [][NextScrape]_vars

(* ------------------------------------------------------------------ *)
(* Overlapping executions: app.invoke is not awaited and neither the  *)
(* retry route nor the sweep knows whether an execution is in flight  *)
(* ------------------------------------------------------------------ *)
\* the execution that was in flight when the newest one was started
OlderRunning == hist.older.pc \in Nodes

\* the model follows one superseded execution per job
NoOlder == hist.older.pc = "none"

InitOverlap ==
  /\ Init
  /\ world = WorldTarget

\* time passes while a node of the execution is at work
TickRunning ==
  /\ Running
  /\ now + TickMinutes <= MaxTime
  /\ now' = now + TickMinutes
  /\ UNCHANGED <<world, pc, state, job, candidates, enrichCalls, run, hist,
                 faults, crashes, summary, sweptAt, sel, handlers>>

\* GET /api/sourcing/:jobId/retry while an execution is in flight
RetryOverlapping ==
  /\ Running
  /\ NoOlder
  /\ retryAccepted(job)
  /\ job' = retryJob(job, now)
  /\ state' = buildResumeState(retryJob(job, now), candidates, world.maxCandidates)
  /\ pc' = "format_jd"
  /\ run' = NewRun("retry")
  /\ hist' = [hist EXCEPT !.resumes = @ + 1,
                          !.older = [pc |-> pc, state |-> state],
                          !.retryResponse = "accepted"]
  /\ UNCHANGED <<world, now, candidates, enrichCalls, faults, crashes, summary,
                 sweptAt, sel, handlers>>

\* GET /api/cron/recover-jobs while an execution is in flight
RecoverOverlapping ==
  /\ Running
  /\ NoOlder
  /\ sweptAt < now
  /\ LET r == recoverJobs(job, now)
     IN /\ job' = r.job
        /\ summary' = r.summary
        /\ IF r.invoke
             THEN /\ state' = buildResumeState(r.job, candidates, world.maxCandidates)
                  /\ pc' = "format_jd"
                  /\ run' = NewRun("sweep")
                  /\ hist' = [hist EXCEPT !.resumes = @ + 1,
                                           !.recoveries = @ + 1,
                                           !.older = [pc |-> pc, state |-> state]]
             ELSE UNCHANGED <<state, pc, run, hist>>
  /\ sweptAt' = now
  /\ UNCHANGED <<world, now, candidates, enrichCalls, faults, crashes, sel, handlers>>

\* the older execution runs its next node (or evaluates the branch)
OlderStep ==
  /\ OlderRunning
  /\ LET c == stepNode(Config(hist.older.pc, hist.older.state, job, candidates,
                              enrichCalls), world, now)
     IN /\ job' = c.job
        /\ candidates' = c.candidates
        /\ enrichCalls' = c.calls
        /\ hist' = [hist EXCEPT !.older = [pc |-> c.pc, state |-> c.state]]
  /\ UNCHANGED <<world, now, pc, state, run, faults, crashes, summary, sweptAt, sel, handlers>>

NextOverlap ==
  \/ FormatJD
  \/ GenerateQueries
  \/ SearchProfiles
  \/ EnrichAndCreate
  \/ Branch
  \/ ScrapeCandidates
  \/ ParseCandidates
  \/ UpdateCandidates
  \/ ScoreAll
  \/ HandleNoCandidates
  \/ OlderStep
  \/ TickRunning
  \/ RecoverOverlapping
  \/ RetryOverlapping

SpecOverlap == InitOverlap /\ [][NextOverlap]_vars

(* ------------------------------------------------------------------ *)
(* Progress of an execution: LangGraph runs the next node of an        *)
(* execution as soon as the previous one has returned                  *)
(* ------------------------------------------------------------------ *)
\* as WorldTwo, but the scoring call fails for profile 1 every time
WorldUnscorable == [WorldTwo EXCEPT !.unscorable = {1}]

InitLive ==
  /\ world \in {WorldTwo, WorldUnscorable, WorldNoKey}
  /\ now = 0
  /\ pc = "format_jd"
  /\ state = InitialState(world.maxCandidates)
  /\ job = NewJob(0)
  /\ candidates = << >>
  /\ enrichCalls = [u \in AllUrls |-> 0]
  /\ run = NewRun("create")
  /\ hist = NewHist
  /\ faults = 0
  /\ crashes = 0
  /\ summary = NoSummary
  /\ sweptAt = 0
  /\ sel = IdleSel
  /\ handlers = NoHandlers

NodeStep ==
  \/ FormatJD
  \/ GenerateQueries
  \/ SearchProfiles
  \/ EnrichAndCreate
  \/ Branch
  \/ ScrapeCandidates
  \/ ParseCandidates
  \/ UpdateCandidates
  \/ ScoreAll
  \/ HandleNoCandidates

NextLive ==
  \/ NodeStep
  \/ CrashAtBoundary
  \/ RetryJob

SpecLive == InitLive /\ [][NodeStep]_vars /\ WF_vars(NodeStep)

(* ------------------------------------------------------------------ *)
(* Plans of several variants: the search loop with fallback calls,     *)
(* failing queries, crashes between nodes and retries                 *)
(* ------------------------------------------------------------------ *)
\* 2 variants, target 2; every query returns fewer than 5 new profiles, so
\* every iteration makes a fallback call; only profile 5 has a contact
WorldFallback ==
  MkWorld(2, 2, TRUE,
          [NoResults(2) EXCEPT ![0] = <<1, 2>>, ![3] = <<2, 3>>,
                               ![1] = <<3, 4>>, ![4] = <<5>>],
          {5})

\* as WorldTwo; profile 1 is also in another job of the same user, profile 3
\* in a job of another user
WorldSeenBefore ==
  [WorldTwo EXCEPT !.ownerElsewhere = {1}, !.othersElsewhere = {3}]

InitSearch ==
  /\ world \in {WorldFallback, WorldDeep, WorldBrokenQuery, WorldNone,
                WorldSeenBefore}
  /\ now = 0
  /\ pc = "format_jd"
  /\ state = InitialState(world.maxCandidates)
  /\ job = NewJob(0)
  /\ candidates = << >>
  /\ enrichCalls = [u \in AllUrls |-> 0]
  /\ run = NewRun("create")
  /\ hist = NewHist
  /\ faults = 0
  /\ crashes = 0
  /\ summary = NoSummary
  /\ sweptAt = 0
  /\ sel = IdleSel
  /\ handlers = NoHandlers

SpecSearch == InitSearch /\ [][NextLive]_vars

(* ------------------------------------------------------------------ *)
(* Properties                                                         *)
(* ------------------------------------------------------------------ *)
\* the recovery sweep re-invokes the graph for the job in this step
SweepReinvokes == ~Running /\ pc' = "format_jd" /\ run'.kind = "sweep"

\* C1: once the search capability has raised the Rate-Limit Signal in an
\* invocation (primary or fallback query), that invocation issues no further
\* search call, and when it ends the job row has status RATE_LIMITED with
\* rateLimitResetAt equal to the signal's reset time.
C1_SearchRateLimitHalts ==
  run.searchRateLimited =>
    /\ ~run.searchAfterRL
    /\ pc = "END" => /\ job.status = "RATE_LIMITED"
                     /\ job.rateLimitResetAt = run.rlResetAt

\* C2: the recovery sweep re-invokes a RATE_LIMITED job only when the clock
\* has reached the job's rateLimitResetAt.
C2_SweepWaitsForReset ==
  [][(SweepReinvokes /\ job.status = "RATE_LIMITED")
       => now >= job.rateLimitResetAt]_vars

\* C3: resuming a RATE_LIMITED job through the recovery sweep leaves the
\* job's retryCount unchanged.
C3_RateLimitResumeKeepsBudget ==
  [][(SweepReinvokes /\ job.status = "RATE_LIMITED")
       => job'.retryCount = job.retryCount]_vars

\* C4: a sweep that finds the job stuck (swept status, last activity older
\* than the staleness window) after 3 automatic recoveries marks it FAILED
\* with a message naming its last stage and counts it in maxRetriesReached.
StuckAfterMaxRecoveries ==
  /\ job.status \in SweptStatuses
  /\ job.lastActivityAt < now - STUCK_THRESHOLD_MINUTES
  /\ hist.recoveries >= MAX_RETRIES

C4_StuckJobMarkedFailed ==
  [][(sweptAt' # sweptAt /\ StuckAfterMaxRecoveries)
       => /\ job'.status = "FAILED"
          /\ job'.errorMessage = Msg("stuck_max_retries", job.currentStage)
          /\ summary'.maxRetriesReached = 1]_vars

\* C5: a job whose process died at a stage boundary and that was resumed
\* through buildResumeState ends, with the same capability answers, with the
\* same Candidate Records as the uninterrupted run.
C5_ResumeSameRecords ==
  (/\ pc = "END"
   /\ hist.interrupted = "boundary"
   /\ hist.resumes >= 1
   /\ ~hist.faulted
   /\ ~hist.reran
   /\ uninterruptedRun(world).pc = "END")
    => candidates = uninterruptedRun(world).candidates

C7_EnrichAtMostOnce ==
  \A u \in AllUrls : enrichCalls[u] <= 1

\* C8: the count returned by Enrich-and-Create equals the number of Candidate
\* Records with contact info stored for the job.
C8_CountMatchesRecords ==
  (pc = "branch" /\ run.enrichReturned >= 0)
    => state.candidatesWithEmails = Cardinality(withContact(candidates))

\* C9: called without preferTier, selectNextQueryByTier returns no tier-2 or
\* tier-3 query while a tier-1 query is unused, and no tier-3 query while a
\* tier-2 query is unused.
unusedInTier(t) ==
  \E k \in 1..Len(sel.plan) :
    sel.plan[k].tier = t /\ sel.plan[k].queryId \notin sel.used

C9_TierOrdering ==
  (sel.done /\ sel.prefer = 0)
    => /\ sel.result.tier \in {2, 3} => ~unusedInTier(1)
       /\ sel.result.tier = 3 => ~unusedInTier(2)

C9_Witness ==
  /\ sel.done
  /\ sel.prefer = 0
  /\ sel.result.tier = 2
  /\ \E k \in 1..Len(sel.plan) : sel.plan[k].tier = 1
  /\ unusedInTier(3)

\* C10: once Enrich-and-Create has ended with found-with-contact >=
\* maxCandidates, the next branch evaluation routes to Scrape and the
\* invocation makes no further call to the search capability.
C10_TargetGoesToScrape ==
  run.targetReached =>
    /\ run.routeAfterTarget \in {"none", "scrape"}
    /\ ~run.searchAfterTarget

C10_Witness ==
  /\ pc = "END"
  /\ run.targetReached
  /\ run.routeAfterTarget = "scrape"
  /\ job.status = "COMPLETED"

\* a first invocation that no crash, capability failure or re-run has touched
CleanFirstRun ==
  /\ run.kind = "create"
  /\ hist.interrupted = "none"
  /\ hist.resumes = 0
  /\ ~hist.faulted

\* C11: Scenario A: with maxCandidates = 10 and a first search iteration of
\* 12 new URLs of which 11 have contacts, Enrich-and-Create creates 11
\* records and the branch advances to Scrape with candidatesWithEmails = 11.
C11_ScenarioANoTruncation ==
  (world = WorldScenarioA /\ CleanFirstRun /\ pc = "scrape_candidates")
    => /\ state.candidatesWithEmails = 11
       /\ Cardinality(withContact(candidates)) = 11

\* C12: Scenario B: a job with 3 variants (9 queries) whose queries return no
\* contact-bearing profile uses all 9 queries within 5 search iterations, is
\* routed to Handle-No-Candidates and ends COMPLETED with totalProfilesFound = 0
\* and the report stored as the job's message.
C12_ScenarioBExhaustsPlan ==
  (world = WorldScenarioB /\ CleanFirstRun /\ pc = "END")
    => /\ job.usedQueryIndices = 0..8
       /\ state.searchIterations <= MAX_ITERATIONS
       /\ run.lastRoute = "no_candidates"
       /\ job.status = "COMPLETED"
       /\ job.totalProfilesFound = 0
       /\ job.errorMessage = Msg("report", "")

\* the job died in the scrape batch loop, was resumed once, and the resumed
\* invocation has finished its Scrape stage; no capability failure
ResumedPastScrape ==
  /\ hist.interrupted = "scrape"
  /\ hist.resumes = 1
  /\ run.kind # "create"
  /\ ~hist.faulted
  /\ pc = "parse_candidates"

C14_EnrichRateLimitPauses ==
  (run.enrichRateLimited /\ pc = "branch")
    => /\ job.status = "RATE_LIMITED"
       /\ job.rateLimitResetAt # NoTime
       /\ state.currentStage = "RATE_LIMITED"
       /\ branchAfterEnrich(state) = "end"

\* C15: once the scrape capability has raised the Rate-Limit Signal in an
\* invocation, Parse, Update and Score do not run in that invocation and the
\* job row keeps status RATE_LIMITED until a resume.
C15_ScrapeRateLimitSuspends ==
  run.scrapeRateLimited
    => /\ run.nodesAfterScrapeRL = {}
       /\ job.status = "RATE_LIMITED"

\* C16: once a stage of an invocation has written status FAILED (format
\* failure, no variants, missing enrichment API key), the job row keeps
\* status FAILED for the rest of that invocation.
C16_FailedStaysFailed ==
  run.markedFailed => job.status = "FAILED"

\* C17: at any time at most one graph execution is active for the job:
\* neither the sweep nor the retry route starts an execution while an earlier
\* one is still running.
C17_SingleExecution ==
  ~(Running /\ OlderRunning)

\* the sweep (not the retry route) starts the second execution
C17_SweepStartsNoSecondExecution ==
  [][(Running /\ sweptAt' # sweptAt) => ~(Running' /\ OlderRunning')]_vars

GraphOrder ==
  <<"format_jd", "generate_queries", "search_profiles", "enrich_and_create",
    "scrape_candidates", "parse_candidates", "update_candidates", "score_all">>

StageRank(stage) ==
  IF \E i \in DOMAIN GraphOrder : GraphOrder[i] = stage
    THEN CHOOSE i \in DOMAIN GraphOrder : GraphOrder[i] = stage
    ELSE 0

\* C19: over the job's lifetime, retries and sweeps included, no commit sets
\* the persisted lastCompletedStage back to an earlier stage of the graph order
\* format_jd, generate_queries, search_profiles, enrich_and_create,
\* scrape_candidates, parse_candidates, update_candidates, score_all.
C19_StageOnlyAdvances ==
  [][(StageRank(job.lastCompletedStage) > 0 /\ StageRank(job'.lastCompletedStage) > 0)
       => StageRank(job'.lastCompletedStage) >= StageRank(job.lastCompletedStage)]_vars

\* C20: whenever the job row carries currentStage NO_CANDIDATES_FOUND, the
\* job has no candidate record with contact info and its status is COMPLETED,
\* not FAILED.
C20_NoCandidatesMeansNone ==
  job.currentStage = "NO_CANDIDATES_FOUND"
    => withContact(candidates) = {} /\ job.status = "COMPLETED"

\* ids of the generated plan
planIds(w) == 0..(3 * w.nVariants - 1)

\* C21: after a search query has failed with an error that is not a rate
\* limit, the other queries of the plan are still attempted: a job whose
\* search loop gives up with no candidates while a query that never failed is
\* still unused has submitted, after the failure, at least one query other
\* than the failed ones.
C21_FailedQueryDoesNotBlockOthers ==
  (/\ pc = "END"
   /\ job.currentStage = "NO_CANDIDATES_FOUND"
   /\ hist.searchFailed # {}
   /\ planIds(world) \ (hist.searchFailed \cup job.usedQueryIndices) # {})
    => hist.afterFailure \ hist.searchFailed # {}

\* C22: Score Candidates terminates for every finite set of unscored
\* candidates, failing items included: an execution that is in the scoring
\* stage eventually leaves it.
C22_ScoringTerminates ==
  (pc = "score_all") ~> (pc # "score_all")

\* C23: at most one candidate record exists per (job, profile URL) after any
\* sequence of search iterations, enrichment passes, crashes and resumes.
C23_OneRecordPerUrl ==
  \A u \in DOMAIN candidates : candidates[u].records = 1

\* a resumed enrichment pass met a profile whose record had been created
\* before the interruption
C23_Witness ==
  /\ hist.sawExisting # {}
  /\ hist.interrupted = "mid"
  /\ \A u \in hist.sawExisting : u \in DOMAIN candidates /\ candidates[u].records = 1

\* C24: at the branch after Enrich-and-Create, when no rate limit was
\* signalled and found-with-contact < target, the graph goes to Scrape if
\* searchIterations >= 5 and found-with-contact > 0, to Handle-No-Candidates
\* if searchIterations >= 5 and found-with-contact = 0, and back to Search
\* Profiles if searchIterations < 5.
C24_IterationCapBranch ==
  [][(/\ pc = "branch"
      /\ pc' \in (Nodes \ {"branch"}) \cup {"END"}
      /\ job' = job
      /\ state.currentStage # "RATE_LIMITED"
      /\ state.candidatesWithEmails < state.maxCandidates)
       => pc' = IF state.searchIterations >= MAX_ITERATIONS
                  THEN (IF state.candidatesWithEmails > 0
                          THEN "scrape_candidates"
                          ELSE "handle_no_candidates")
                  ELSE "search_profiles"]_vars

\* the branch has sent a job with some, but fewer than target, contacts to
\* Scrape at the iteration cap
C24_Witness ==
  /\ pc = "scrape_candidates"
  /\ run.lastRoute = "scrape"
  /\ state.searchIterations >= MAX_ITERATIONS
  /\ state.candidatesWithEmails > 0
  /\ state.candidatesWithEmails < state.maxCandidates

\* positions in the plan of the unused queries of tier t
unusedOfTier(t) ==
  {k \in 1..Len(sel.plan) :
     sel.plan[k].tier = t /\ sel.plan[k].queryId \notin sel.used}

firstUnusedOfTier(t) ==
  sel.plan[CHOOSE k \in unusedOfTier(t) : \A j \in unusedOfTier(t) : k <= j]

lowestTierWithUnused ==
  CHOOSE t \in 1..3 :
    /\ unusedOfTier(t) # {}
    /\ \A s \in 1..3 : unusedOfTier(s) # {} => t <= s

preferHasUnused == sel.prefer \in 1..3 /\ unusedOfTier(sel.prefer) # {}

\* C25: selectNextQueryByTier returns an unused query of preferTier whenever
\* that tier has one; otherwise the first unused query of the lowest tier that
\* has one; null exactly when every query of tiers 1 to 3 is used; and never
\* a query whose id is in the used set.
C25_SelectContract ==
  sel.done =>
    /\ preferHasUnused => sel.result = firstUnusedOfTier(sel.prefer)
    /\ (~preferHasUnused /\ \E t \in 1..3 : unusedOfTier(t) # {})
         => sel.result = firstUnusedOfTier(lowestTierWithUnused)
    /\ (sel.result = NoQuery) <=> (\A t \in 1..3 : unusedOfTier(t) = {})
    /\ sel.result # NoQuery => sel.result.queryId \notin sel.used

\* the preferred tier 2 was served although tier 1 had an unused query, in a
\* plan where a used tier-2 query comes first
C25_Witness ==
  /\ sel.done
  /\ sel.prefer = 2
  /\ sel.result.tier = 2
  /\ unusedOfTier(1) # {}
  /\ \E k \in 1..Len(sel.plan) :
       sel.plan[k].tier = 2 /\ sel.plan[k].queryId \in sel.used

\* a step of Search Profiles
SearchStep == pc = "search_profiles" /\ pc' = "enrich_and_create"

\* the query of the plan in state st with id q
queryOfId(st, q) ==
  CHOOSE k \in Range(st.searchQueries) : k.queryId = q

\* the plan in st has a query of tier t (any tier of 1 to 3 when t = 0) whose
\* id is not in used
hasUnused(st, used, t) ==
  \E k \in Range(st.searchQueries) :
    /\ k.queryId \notin used
    /\ k.tier \in 1..3
    /\ t # 0 => k.tier = t

\* C26: one Search Profiles invocation issues at most 2 calls to the search
\* capability; the second call is made exactly when the primary query
\* returned fewer than 5 newly discovered URLs and an unused query remains,
\* and it uses an unused query of the primary's tier when one exists.
C26_FallbackRule ==
  [][SearchStep =>
       LET submitted == run'.lastSubmitted
           primary == submitted[1]
           used1 == job.usedQueryIndices \cup {primary}
           returned == state'.currentStage = "SEARCH_COMPLETE"
           newPrimary == newProfilesOf(world.results[primary], job.discoveredUrls)
       IN /\ Len(submitted) <= MAX_QUERIES_PER_ITERATION
          /\ Len(submitted) >= 1 =>
               /\ (Len(submitted) = 2)
                    <=> (/\ returned
                         /\ Len(newPrimary) < MIN_RESULTS_THRESHOLD
                         /\ hasUnused(state, used1, 0))
               /\ (Len(submitted) = 2
                     /\ hasUnused(state, used1, queryOfId(state, primary).tier))
                    => /\ queryOfId(state, submitted[2]).tier
                            = queryOfId(state, primary).tier
                       /\ submitted[2] \notin used1]_vars

\* a fallback call was made to a tier-1 query although the plan still had
\* unused queries of tier 2
C26_Witness ==
  /\ pc = "enrich_and_create"
  /\ Len(run.lastSubmitted) = 2
  /\ queryOfId(state, run.lastSubmitted[1]).tier = 1
  /\ queryOfId(state, run.lastSubmitted[2]).tier = 1
  /\ hasUnused(state, job.usedQueryIndices, 2)

\* the used set the i-th call of a Search Profiles step is selected against
usedBeforeCall(submitted, i) ==
  job.usedQueryIndices \cup {submitted[j] : j \in 1..(i - 1)}

\* C27: over all iterations, fallbacks and resumes, every query submitted
\* belongs to the lowest tier that has an unused query at the moment it is
\* selected: no tier-2 query while a tier-1 query is unused, no tier-3 query
\* while a tier-1 or tier-2 query is unused.
C27_LowestTierFirst ==
  [][SearchStep =>
       \A i \in 1..Len(run'.lastSubmitted) :
         \A s \in 1..3 :
           s < queryOfId(state, run'.lastSubmitted[i]).tier
             => ~hasUnused(state, usedBeforeCall(run'.lastSubmitted, i), s)]_vars

\* after a resume, a tier-2 query was submitted with tier 1 used up and
\* tier 3 still unused
C27_Witness ==
  /\ pc = "enrich_and_create"
  /\ hist.resumes >= 1
  /\ Len(run.lastSubmitted) >= 1
  /\ queryOfId(state, run.lastSubmitted[1]).tier = 2
  /\ ~hasUnused(state, job.usedQueryIndices, 1)
  /\ hasUnused(state, job.usedQueryIndices, 3)

\* C28: a query whose id is in the job's persisted Used-Query set is never
\* submitted to the search capability again, in the same run or after a
\* retry or recovery resume.
C28_UsedQueryNotResubmitted ==
  [][SearchStep =>
       /\ \A i \in 1..Len(run'.lastSubmitted) :
            run'.lastSubmitted[i] \notin job.usedQueryIndices
       /\ Len(run'.lastSubmitted) = 2
            => run'.lastSubmitted[1] # run'.lastSubmitted[2]]_vars

\* a run started by a retry after a crash found queries in the persisted
\* used set and has submitted another query
C28_Witness ==
  /\ pc = "enrich_and_create"
  /\ run.kind = "retry"
  /\ hist.interrupted # "none"
  /\ run.usedAtStart # {}
  /\ Len(run.lastSubmitted) >= 1
  /\ Range(run.lastSubmitted) \cap run.usedAtStart = {}

\* C29: the cap of 5 iterations bounds the search work of a job: over the
\* job's lifetime, resumed runs included, at most 5 search iterations issue a
\* query (hist.queryIterations counts them, up to one past the cap).
C29_IterationCapBoundsJob ==
  hist.queryIterations <= MAX_ITERATIONS


\* C30: every graph invocation reaches END after finitely many stage
\* executions, a missing enrichment key with search results pending included:
\* an execution that is in the search / enrich loop eventually leaves it.
SearchLoop == {"search_profiles", "enrich_and_create", "branch"}

C30_SearchLoopTerminates ==
  (pc \in SearchLoop) ~> (pc \notin SearchLoop)


\* C31: in every persisted checkpoint of a job the enriched URLs are a subset
\* of the discovered URLs: a URL is never committed as enriched before it has
\* been committed as discovered.
C31_EnrichedSubsetOfDiscovered ==
  job.enrichedUrls \subseteq Range(job.discoveredUrls)

C31_Witness ==
  /\ job.enrichedUrls # {}
  /\ Cardinality(job.enrichedUrls) < Len(job.discoveredUrls)
  /\ hist.resumes > 0


(* ------------------------------------------------------------------ *)
(* Stand-alone calls of the reducers of discoveredUrls / enrichedUrls  *)
(* ------------------------------------------------------------------ *)
\* JavaScript Sets over the URLs 1..MaxSetUrls, in insertion order
OrderedSets ==
  {s \in UNION {[1..n -> 1..MaxSetUrls] : n \in 0..MaxSetUrls} :
     \A i, j \in 1..Len(s) : i # j => s[i] # s[j]}

Updates == {NoUpdate} \cup {Update(s) : s \in OrderedSets}

InitReduce ==
  /\ world = WorldNone
  /\ now = 0
  /\ pc = "END"
  /\ state = InitialState(world.maxCandidates)
  /\ job = NewJob(0)
  /\ candidates = << >>
  /\ enrichCalls = [u \in AllUrls |-> 0]
  /\ run = NewRun("create")
  /\ hist = NewHist
  /\ faults = 0
  /\ crashes = 0
  /\ summary = NoSummary
  /\ sweptAt = 0
  /\ handlers = NoHandlers
  /\ \E current \in OrderedSets :
       \E a \in Updates :
         \E b \in Updates :
           sel = [current |-> current, a |-> a, b |-> b, done |-> FALSE,
                  once |-> << >>, twice |-> << >>, ab |-> << >>, ba |-> << >>,
                  onceE |-> {}, twiceE |-> {}, abE |-> {}, baE |-> {}]

Reduce ==
  /\ ~sel.done
  /\ LET d1 == reduceDiscovered(sel.current, sel.a)
         e0 == Range(sel.current)
         e1 == reduceEnriched(e0, sel.a)
     IN sel' = [sel EXCEPT
                  !.done = TRUE,
                  !.once = d1,
                  !.twice = reduceDiscovered(d1, sel.a),
                  !.ab = reduceDiscovered(d1, sel.b),
                  !.ba = reduceDiscovered(reduceDiscovered(sel.current, sel.b), sel.a),
                  !.onceE = e1,
                  !.twiceE = reduceEnriched(e1, sel.a),
                  !.abE = reduceEnriched(e1, sel.b),
                  !.baE = reduceEnriched(reduceEnriched(e0, sel.b), sel.a)]
  /\ UNCHANGED <<world, now, pc, state, job, candidates, enrichCalls, run, hist,
                 faults, crashes, summary, sweptAt, handlers>>

NextReduce == Reduce

SpecReduce == InitReduce /\ [][NextReduce]_vars

\* C32: the reducer of discoveredUrls and of enrichedUrls is a set union:
\* merge(current, update) = current \cup update, an absent update returns
\* current unchanged, merging the same update twice equals merging it once,
\* and merging A then B gives the same set as merging B then A.
C32_ReducerIsSetUnion ==
  sel.done =>
    /\ sel.a.present =>
         /\ Range(sel.once) = Range(sel.current) \cup Range(sel.a.value)
         /\ sel.onceE = Range(sel.current) \cup Range(sel.a.value)
    /\ ~sel.a.present =>
         /\ sel.once = sel.current
         /\ sel.onceE = Range(sel.current)
    /\ Range(sel.twice) = Range(sel.once)
    /\ sel.twiceE = sel.onceE
    /\ Range(sel.ab) = Range(sel.ba)
    /\ sel.abE = sel.baE

C32_Witness ==
  /\ sel.done
  /\ sel.a.present /\ sel.b.present
  /\ Range(sel.a.value) \cap Range(sel.current) # {}
  /\ Range(sel.a.value) \ Range(sel.current) # {}
  /\ Range(sel.b.value) \ Range(sel.a.value) # {}
  /\ sel.ab # sel.ba


\* C33: whenever Score Candidates marks a job COMPLETED, every candidate
\* record of that job has isScored = true.
ScoringMarksCompleted ==
  /\ pc = "score_all" \/ hist.older.pc = "score_all"
  /\ job'.status = "COMPLETED"
  /\ job'.currentStage = "SCORING_COMPLETE"
  /\ job' # job \/ candidates' # candidates

C33_CompletedMeansAllScored ==
  [][ScoringMarksCompleted => \A u \in DOMAIN candidates' : candidates'[u].isScored]_vars

C33_Witness ==
  /\ job.status = "COMPLETED"
  /\ job.currentStage = "SCORING_COMPLETE"
  /\ Cardinality(DOMAIN candidates) >= 2
  /\ \A u \in DOMAIN candidates : candidates[u].isScored
  /\ hist.resumes > 0


\* C34: Update/Persist sets a candidate's isDuplicate flag only when the same
\* profile URL exists in a different sourcing job of the same owner (a profile
\* that appears only in the current job is saved with isDuplicate = false),
\* and a flagged duplicate is still saved with scrapingStatus SCRAPED.
C34_DuplicateOnlyAcrossJobs ==
  \A u \in DOMAIN candidates :
    /\ candidates[u].isDuplicate => u \in world.ownerElsewhere
    /\ candidates[u].isDuplicate => candidates[u].scrapingStatus = "SCRAPED"


\* C35: Generate Queries is deterministic and its identifiers are stable:
\* the plan of an execution, first or resumed, has 3n queries for the n
\* persisted variants, variant i (from 0) yielding ids 3i, 3i+1, 3i+2 with
\* tiers 1, 2, 3, so the ids in the persisted used set denote queries of the
\* recomputed plan.
C35_StableQueryIds ==
  LET q == state.searchQueries
      n == world.nVariants
  IN q # << >> =>
       /\ Len(q) = 3 * n
       /\ \A i \in 0..(n - 1) :
            \A k \in 0..2 :
              q[3 * i + k + 1] = [tier |-> k + 1, queryId |-> 3 * i + k,
                                  variant |-> i + 1]
       /\ \A id \in job.usedQueryIndices :
            Cardinality({j \in 1..Len(q) : q[j].queryId = id}) = 1

C35_Witness ==
  /\ hist.resumes > 0
  /\ world.nVariants >= 2
  /\ state.searchQueries # << >>
  /\ \E id \in run.usedAtStart : id >= 3


\* C36: recovery liveness: a job whose status is not COMPLETED or FAILED (a
\* job left in CREATED included) and whose last activity is older than the
\* staleness window is re-invoked or marked FAILED by the sweeps. Finite-run
\* form: a sweep that meets such a job, with no execution of it alive, either
\* re-invokes the graph or marks the job FAILED; a sweep that leaves it as it
\* is will leave it so every time.
SweepMeetsStaleJob ==
  /\ sweptAt' # sweptAt
  /\ ~Running
  /\ job.status \notin {"COMPLETED", "FAILED"}
  /\ job.lastActivityAt < now - STUCK_THRESHOLD_MINUTES

C36_SweepRecoversOrFails ==
  [][SweepMeetsStaleJob => (pc' = "format_jd" \/ job'.status = "FAILED")]_vars


(* ------------------------------------------------------------------ *)
(* Requests racing on the retry count: the retry route and the sweep   *)
(* read the job row, decide, and write in a later step; other requests *)
(* are served between the two. The execution a new invocation          *)
(* supersedes is not followed here (SpecOverlap follows it).           *)
(* ------------------------------------------------------------------ *)
InitRace ==
  /\ Init
  /\ world \in {WorldNone, WorldTarget}

\* GET /:jobId/retry up to the ceiling check on the row it has read
RetryCheck(r) ==
  /\ handlers.retry[r] = "idle"
  /\ retryAccepted(job)
  /\ handlers' = [handlers EXCEPT !.retry[r] = "checked"]
  /\ UNCHANGED <<world, now, pc, state, job, candidates, enrichCalls, run, hist,
                 faults, crashes, summary, sweptAt, sel>>

\* the rest of the route: update with retryCount: { increment: 1 },
\* buildResumeState, app.invoke
RetryCommit(r) ==
  /\ handlers.retry[r] = "checked"
  /\ job' = retryJob(job, now)
  /\ state' = buildResumeState(retryJob(job, now), candidates, world.maxCandidates)
  /\ pc' = "format_jd"
  /\ run' = [NewRun("retry") EXCEPT !.usedAtStart = job.usedQueryIndices]
  /\ hist' = [hist EXCEPT !.resumes = @ + 1, !.retryResponse = "accepted"]
  /\ handlers' = [handlers EXCEPT !.retry[r] = "idle"]
  /\ UNCHANGED <<world, now, candidates, enrichCalls, faults, crashes, summary,
                 sweptAt, sel>>

\* GET /recover-jobs up to the result of findMany: the selected row
SweepSelect ==
  /\ handlers.sweep.at = "idle"
  /\ sweptAt < now
  /\ isStuckJob(job, now)
  /\ handlers' = [handlers EXCEPT
                    !.sweep = [at |-> "selected", retryCount |-> job.retryCount]]
  /\ sweptAt' = now
  /\ UNCHANGED <<world, now, pc, state, job, candidates, enrichCalls, run, hist,
                 faults, crashes, summary, sel>>

\* body of the loop for the selected row: the ceiling is checked on the
\* row as selected, the increment is applied to the row as it is now
SweepCommit ==
  /\ handlers.sweep.at = "selected"
  /\ LET r == recoverJob([job EXCEPT !.retryCount = handlers.sweep.retryCount], now)
         jb == [r.job EXCEPT !.retryCount =
                               IF r.invoke THEN job.retryCount + 1 ELSE job.retryCount]
     IN /\ job' = jb
        /\ summary' = r.summary
        /\ IF r.invoke
             THEN /\ state' = buildResumeState(jb, candidates, world.maxCandidates)
                  /\ pc' = "format_jd"
                  /\ run' = NewRun("sweep")
                  /\ hist' = [hist EXCEPT !.resumes = @ + 1, !.recoveries = @ + 1]
             ELSE UNCHANGED <<state, pc, run, hist>>
  /\ handlers' = [handlers EXCEPT !.sweep = NoHandlers.sweep]
  /\ UNCHANGED <<world, now, candidates, enrichCalls, faults, crashes, sweptAt, sel>>

TickRace ==
  /\ now + TickMinutes <= MaxTime
  /\ now' = now + TickMinutes
  /\ UNCHANGED <<world, pc, state, job, candidates, enrichCalls, run, hist,
                 faults, crashes, summary, sweptAt, sel, handlers>>

NextRace ==
  \/ NodeStep
  \/ \E r \in 1..MaxRequests : RetryCheck(r)
  \/ \E r \in 1..MaxRequests : RetryCommit(r)
  \/ SweepSelect
  \/ SweepCommit
  \/ TickRace

SpecRace == InitRace /\ [][NextRace]_vars

\* C37: a job's retryCount never exceeds its retry ceiling, including when two
\* retry requests, or a retry request and a recovery sweep, for the same job
\* interleave between the ceiling check and the increment.
C37_RetryCountWithinCeiling ==
  job.retryCount <= job.maxRetries


\* C38: whenever the graph advances from Enrich-and-Create to Scrape, because
\* the target was reached or because partial fulfilment was accepted after 5
\* iterations, the job's persisted totalProfilesFound equals the
\* found-with-contact count returned by Enrich-and-Create.
AdvancesToScrape ==
  /\ pc = "branch"
  /\ pc' = "scrape_candidates"
  /\ run.enrichReturned >= 0

C38_TotalFoundAtScrape ==
  [][AdvancesToScrape => job.totalProfilesFound = run.enrichReturned]_vars


\* C39: a job whose status is COMPLETED is never re-executed: neither the
\* recovery sweeper nor the retry endpoint resets a COMPLETED job to CREATED
\* or invokes the graph for it.
C39_CompletedNeverReExecuted ==
  [][job.status = "COMPLETED" => ~(job'.status = "CREATED" \/ pc' = "format_jd")]_vars

====
